---- MODULE Spec2Model ----
(***************************************************************************)
(* Model of the query / export / PII pipeline of logtool/proxy/server.js.  *)
(*                                                                         *)
(* Strings that the code inspects character by character (index patterns, *)
(* allow patterns, PII paths, cache keys) are sequences of one-character   *)
(* strings.  Names that the code only compares for equality (user names,   *)
(* team names) are atoms.                                                  *)
(***************************************************************************)
EXTENDS Integers, Sequences, FiniteSets, TLC

VARIABLES
    users,            \* users.users: the configured users; empty <=> auth disabled
    userIndexAccess,  \* appConfig.userIndexAccess: username -> allow patterns
    teamIndexAccess,  \* appConfig.teamIndexAccess: team -> allow patterns
    indexOptions,     \* appConfig.indexOptions
    indexPatternSettings, \* appConfig.indexPatternSettings: entries {pattern, timeField}
    defaultIndexPattern,  \* appConfig.defaultIndexPattern
    piiFieldRules,    \* appConfig.piiFieldRules
    request,          \* the request being handled: route, bearer, index pattern
    piiIn,            \* the arguments of a pending call into the masking engine
    piiOut,           \* the last call into the masking engine and its result
    guardCall,        \* the last isIndexPatternAllowed call and its result
    configResp,       \* the last GET /api/config response
    featureToggles,   \* featureToggles.teams: team -> toggles, None when not configured
    responseCache,    \* responseCache: the Map's entries in insertion order
    now,              \* Date.now(), in milliseconds
    inflight,         \* the handler suspended at an await on the search engine
    engineCall,       \* the last request sent to the search engine
    response,         \* the last response sent to a client
    storedBy,         \* for each cached search response, the request that stored it
    metrics,          \* metrics: the day's searches and exports counters
    budget,           \* requests and admin updates still to come
    CACHE_TTL_MS,     \* Number(process.env.CACHE_TTL_MS || 15000), read once at start
    fnCall,           \* the last call of a function under study and its result
    cacheLog,         \* the keys that calls of cacheSet inserted, in the order of insertion
    alertRules,       \* rules.rules: the configured alert rules
    lastTriggeredAt,  \* rulesState.lastTriggeredAt: rule id -> ISO time, <<>> when absent
    hourlyQueries,    \* metrics.hourlyQueries: hour key -> query -> count
    smtp,             \* the mail settings: smtpHost, alertEmailTo, alertEmailFrom
    alertRuns,        \* the runs of runRuleChecks suspended at await sendMail, oldest first
    evalLog,          \* the evaluations of rules made by the latest run of runRuleChecks
    lastSentAt        \* rule id -> time of the run whose mail was last sent, -1 when none

pipeVars == <<featureToggles, responseCache, now, inflight, engineCall, response,
              storedBy, metrics, budget>>

alertVars == <<alertRules, lastTriggeredAt, hourlyQueries, smtp, alertRuns, evalLog, lastSentAt>>

extVars == <<CACHE_TTL_MS, fnCall, cacheLog, alertVars>>

vars == <<users, userIndexAccess, teamIndexAccess, indexOptions, indexPatternSettings,
          defaultIndexPattern, piiFieldRules, request, piiIn, piiOut, guardCall, configResp,
          pipeVars, extVars>>

None == [t |-> "none"]

(***************************************************************************)
(* Strings                                                                 *)
(***************************************************************************)
NL == "\n"

\* Characters JavaScript's `.` does not match and trim() strips.
LineTerminators == {NL}
WhiteSpace == {" ", NL}

RECURSIVE StringsUpTo(_, _)
StringsUpTo(alphabet, n) ==
    IF n = 0 THEN {<<>>}
    ELSE LET shorter == StringsUpTo(alphabet, n - 1)
         IN  shorter \cup {<<c>> \o s : c \in alphabet, s \in {z \in shorter : Len(z) = n - 1}}

\* Array.prototype.join
RECURSIVE Join(_, _)
Join(parts, sep) ==
    IF parts = <<>> THEN <<>>
    ELSE IF Len(parts) = 1 THEN parts[1]
    ELSE parts[1] \o sep \o Join(Tail(parts), sep)

IndexOf(s, c) ==
    IF \E i \in 1..Len(s) : s[i] = c
    THEN CHOOSE i \in 1..Len(s) : s[i] = c /\ \A j \in 1..(i - 1) : s[j] # c
    ELSE 0

\* String.prototype.split on a one-character separator
RECURSIVE Split(_, _)
Split(s, c) ==
    LET i == IndexOf(s, c)
    IN  IF i = 0 THEN <<s>>
        ELSE <<SubSeq(s, 1, i - 1)>> \o Split(SubSeq(s, i + 1, Len(s)), c)

RECURSIVE TrimStart(_)
TrimStart(s) ==
    IF s # <<>> /\ s[1] \in WhiteSpace THEN TrimStart(Tail(s)) ELSE s

RECURSIVE TrimEnd(_)
TrimEnd(s) ==
    IF s # <<>> /\ s[Len(s)] \in WhiteSpace THEN TrimEnd(SubSeq(s, 1, Len(s) - 1)) ELSE s

\* String.prototype.trim
Trim(s) == TrimEnd(TrimStart(s))

(***************************************************************************)
(* Regular expressions built by wildcardToRegex / buildPiiMatchers         *)
(***************************************************************************)
\* The character class of escapeRegex: . * + ? ^ $ { } ( ) | [ ] \
RegexMeta == {".", "*", "+", "?", "^", "$", "{", "}", "(", ")", "|", "[", "]", "\\"}

escapeRegexNoDot(input) ==
    LET RECURSIVE esc(_)
        esc(s) == IF s = <<>> THEN <<>>
                  ELSE (IF s[1] \in RegexMeta \ {"."} THEN <<"\\", s[1]>> ELSE <<s[1]>>) \o esc(Tail(s))
    IN  esc(input)

escapeRegex(input) ==
    LET RECURSIVE esc(_)
        esc(s) == IF s = <<>> THEN <<>>
                  ELSE (IF s[1] \in RegexMeta THEN <<"\\", s[1]>> ELSE <<s[1]>>) \o esc(Tail(s))
    IN  esc(input)

\* The source text of new RegExp(`^${pattern.split('*').map(escapeRegex).join('.*')}$`)
wildcardToRegex(pattern) ==
    LET parts == Split(pattern, "*")
        escaped == [i \in 1..Len(parts) |-> escapeRegex(parts[i])]
    IN  <<"^">> \o Join(escaped, <<".", "*">>) \o <<"$">>

\* The regular expression a source text denotes, as a sequence of atoms:
\* \c is the literal c, .* any run of non-line-terminators, . one of them.
RECURSIVE RegexAtoms(_)
RegexAtoms(src) ==
    IF src = <<>> THEN <<>>
    ELSE IF src[1] = "\\" /\ Len(src) >= 2
         THEN <<[k |-> "lit", c |-> src[2]]>> \o RegexAtoms(SubSeq(src, 3, Len(src)))
    ELSE IF src[1] = "." /\ Len(src) >= 2 /\ src[2] = "*"
         THEN <<[k |-> "dotstar", c |-> "."]>> \o RegexAtoms(SubSeq(src, 3, Len(src)))
    ELSE IF src[1] = "."
         THEN <<[k |-> "dot", c |-> "."]>> \o RegexAtoms(Tail(src))
    ELSE <<[k |-> "lit", c |-> src[1]]>> \o RegexAtoms(Tail(src))

RECURSIVE AtomsMatch(_, _)
AtomsMatch(atoms, s) ==
    IF atoms = <<>> THEN s = <<>>
    ELSE CASE atoms[1].k = "lit" ->
                s # <<>> /\ s[1] = atoms[1].c /\ AtomsMatch(Tail(atoms), Tail(s))
           [] atoms[1].k = "dot" ->
                s # <<>> /\ s[1] \notin LineTerminators /\ AtomsMatch(Tail(atoms), Tail(s))
           [] atoms[1].k = "dotstar" ->
                \/ AtomsMatch(Tail(atoms), s)
                \/ s # <<>> /\ s[1] \notin LineTerminators /\ AtomsMatch(atoms, Tail(s))

\* RegExp.prototype.test for a source ^...$ (no flags: $ is the end of input)
RegexTest(src, s) ==
    AtomsMatch(RegexAtoms(SubSeq(src, 2, Len(src) - 1)), s)

(***************************************************************************)
(* Users and authentication                                                *)
(***************************************************************************)
Alice == [id |-> <<"1">>, username |-> "alice", role |-> "viewer", teams |-> <<"t1">>]
Bob   == [id |-> <<"2">>, username |-> "bob", role |-> "editor", teams |-> <<"t1", "t2">>]
Root  == [id |-> <<"3">>, username |-> "root", role |-> "admin", teams |-> <<"t2">>]

UserPool == {Alice, Bob, Root}
Usernames == {u.username : u \in UserPool}
Teams == {"t1", "t2"}

authEnabled == users # {}

\* app.use('/api', ...): which user the route sees in req.user for a request
\* carrying a valid bearer token of `bearer` (None: no token).  Paths under
\* /auth, /admin and the path /config skip requireAuth, which alone sets req.user.
ApiAuthMiddleware(path, bearer) ==
    IF ~authEnabled THEN [status |-> 0, user |-> None]
    ELSE IF path \in {"/auth", "/admin", "/config"} THEN [status |-> 0, user |-> None]
    ELSE IF bearer = None \/ bearer \notin users THEN [status |-> 401, user |-> None]
    ELSE [status |-> 0, user |-> bearer]

(***************************************************************************)
(* IndexAccessGuard                                                        *)
(***************************************************************************)
RECURSIVE FlatMap(_, _)
FlatMap(seq, f) ==
    IF seq = <<>> THEN <<>> ELSE f[seq[1]] \o FlatMap(Tail(seq), f)

getAllowedIndexPatternsTeamsFirst(user) ==
    IF user = None \/ user.role = "admin" THEN <<>>
    ELSE LET teamPatterns == FlatMap(user.teams, teamIndexAccess)
         IN  IF Len(teamPatterns) > 0 THEN teamPatterns ELSE userIndexAccess[user.username]

getAllowedIndexPatterns(user) ==
    IF user = None \/ user.role = "admin" THEN <<>>
    ELSE IF Len(userIndexAccess[user.username]) > 0 THEN userIndexAccess[user.username]
    ELSE FlatMap(user.teams, teamIndexAccess)

isIndexPatternAllowedFailClosed(user, indexPattern) ==
    IF user = None \/ user.role = "admin" THEN TRUE
    ELSE LET allowed == getAllowedIndexPatterns(user)
         IN  \E i \in 1..Len(allowed) : RegexTest(wildcardToRegex(allowed[i]), indexPattern)

isIndexPatternAllowed(user, indexPattern) ==
    IF user = None \/ user.role = "admin" THEN TRUE
    ELSE LET allowed == getAllowedIndexPatterns(user)
         IN  IF Len(allowed) = 0 THEN TRUE
             ELSE \E i \in 1..Len(allowed) : RegexTest(wildcardToRegex(allowed[i]), indexPattern)

\* The pattern of an index option "pattern|label"
OptionPattern(raw) == Trim(Split(raw, "|")[1])

filterIndexOptionsForUser(user, options) ==
    IF user = None \/ user.role = "admin" THEN options
    ELSE LET allowed == getAllowedIndexPatterns(user)
         IN  IF Len(allowed) = 0 THEN options
             ELSE SelectSeq(options, LAMBDA raw :
                    /\ OptionPattern(raw) # <<>>
                    /\ \E i \in 1..Len(allowed) :
                          RegexTest(wildcardToRegex(allowed[i]), OptionPattern(raw)))

(***************************************************************************)
(* JSON values: tagged records; an object is the sequence of its entries   *)
(* <<key, value>> in property order                                        *)
(***************************************************************************)
Str(chars) == [t |-> "str", v |-> chars]
Num(n) == [t |-> "num", v |-> n]
Bool(b) == [t |-> "bool", v |-> b]
Null == [t |-> "null"]
Arr(items) == [t |-> "arr", v |-> items]
Obj(entries) == [t |-> "obj", v |-> entries]
Undefined == [t |-> "undefined"]

DigitChars == <<"0", "1", "2", "3", "4", "5", "6", "7", "8", "9">>

\* String(n) for an integer n
RECURSIVE NumToChars(_)
NumToChars(n) ==
    IF n < 0 THEN <<"-">> \o NumToChars(-n)
    ELSE IF n < 10 THEN <<DigitChars[n + 1]>>
    ELSE NumToChars(n \div 10) \o <<DigitChars[(n % 10) + 1]>>

\* String(value) for a scalar
JsString(value) ==
    CASE value.t = "str" -> value.v
      [] value.t = "num" -> NumToChars(value.v)
      [] value.t = "bool" -> IF value.v THEN <<"t", "r", "u", "e">> ELSE <<"f", "a", "l", "s", "e">>
      [] value.t = "null" -> <<"n", "u", "l", "l">>
      [] value.t = "undefined" -> <<"u", "n", "d", "e", "f", "i", "n", "e", "d">>

\* JavaScript truthiness
Truthy(value) ==
    CASE value.t \in {"null", "undefined"} -> FALSE
      [] value.t = "bool" -> value.v
      [] value.t = "num" -> value.v # 0
      [] value.t = "str" -> value.v # <<>>
      [] OTHER -> TRUE

HasKey(obj, key) == obj.t = "obj" /\ \E i \in 1..Len(obj.v) : obj.v[i][1] = key

\* obj[key] (undefined on a missing key and on a non-object)
Get(obj, key) ==
    IF HasKey(obj, key)
    THEN obj.v[CHOOSE i \in 1..Len(obj.v) : obj.v[i][1] = key][2]
    ELSE Undefined

\* { ...obj, [key]: value }
SpreadSet(obj, key, value) ==
    IF HasKey(obj, key)
    THEN Obj([i \in 1..Len(obj.v) |-> IF obj.v[i][1] = key THEN <<key, value>> ELSE obj.v[i]])
    ELSE Obj(Append(obj.v, <<key, value>>))

(***************************************************************************)
(* PiiMaskingEngine                                                        *)
(***************************************************************************)
MaskedText == <<"[", "m", "a", "s", "k", "e", "d", "]">>
Masked == Str(MaskedText)
ThreeStars == <<"*", "*", "*">>
REMOVE_FIELD == [t |-> "remove_field"]

buildPiiMatchers(rules) ==
    LET mapped == [i \in 1..Len(rules) |->
                     LET pattern == Trim(rules[i].pattern)
                     IN  [pattern |-> pattern,
                          action |-> IF rules[i].action = "hide" THEN "hide"
                                     ELSE IF rules[i].action = "partial" THEN "partial"
                                     ELSE "mask",
                          regex |-> wildcardToRegex(pattern)]]
    IN  SelectSeq(mapped, LAMBDA m : m.pattern # <<>>)

getPiiActionLastWins(path, matchers) ==
    LET RECURSIVE loop(_, _)
        loop(i, action) ==
            IF i > Len(matchers) THEN action
            ELSE IF RegexTest(matchers[i].regex, path)
                 THEN IF matchers[i].action = "hide" THEN "hide"
                      ELSE loop(i + 1, matchers[i].action)
                 ELSE loop(i + 1, action)
    IN  loop(1, "none")

\* The for loop of getPiiAction; "none" stands for the null it starts from.
getPiiAction(path, matchers) ==
    LET RECURSIVE loop(_, _)
        loop(i, action) ==
            IF i > Len(matchers) THEN action
            ELSE IF RegexTest(matchers[i].regex, path)
                 THEN IF matchers[i].action = "hide" THEN "hide"
                      ELSE IF matchers[i].action = "mask" THEN loop(i + 1, "mask")
                      ELSE IF matchers[i].action = "partial" /\ action # "mask"
                           THEN loop(i + 1, "partial")
                      ELSE loop(i + 1, action)
                 ELSE loop(i + 1, action)
    IN  loop(1, "none")

partialMaskValueNoNullCheck(value) ==
    IF value.t \in {"obj", "arr"} THEN Masked
    ELSE LET raw == JsString(value)
             n == Len(raw)
         IN  IF n = 0 THEN Str(<<>>)
             ELSE IF n <= 2 THEN Str([i \in 1..n |-> "*"])
             ELSE IF n <= 4 THEN Str(<<raw[1]>> \o ThreeStars \o <<raw[n]>>)
             ELSE Str(SubSeq(raw, 1, 2) \o ThreeStars \o SubSeq(raw, n - 1, n))

partialMaskValue(value) ==
    IF value.t \in {"null", "undefined"} THEN value
    ELSE IF value.t \in {"obj", "arr"} THEN Masked
    ELSE LET raw == JsString(value)
             n == Len(raw)
         IN  IF n = 0 THEN Str(<<>>)
             ELSE IF n <= 2 THEN Str([i \in 1..n |-> "*"])
             ELSE IF n <= 4 THEN Str(<<raw[1]>> \o ThreeStars \o <<raw[n]>>)
             ELSE Str(SubSeq(raw, 1, 2) \o ThreeStars \o SubSeq(raw, n - 1, n))

\* path ? `${path}.${segment}` : segment
ChildPath(path, segment) ==
    IF path # <<>> THEN path \o <<".">> \o segment ELSE segment

ArrPushNull(nextArr, res) ==
    IF res # REMOVE_FIELD THEN Append(nextArr, res) ELSE Append(nextArr, Null)

\* if (res !== REMOVE_FIELD) nextArr.push(res)
ArrPush(nextArr, res) ==
    IF res # REMOVE_FIELD THEN Append(nextArr, res) ELSE nextArr

ObjPutNull(nextObj, key, res) ==
    IF res # REMOVE_FIELD THEN Append(nextObj, <<key, res>>) ELSE Append(nextObj, <<key, Null>>)

\* if (res !== REMOVE_FIELD) nextObj[key] = res
ObjPut(nextObj, key, res) ==
    IF res # REMOVE_FIELD THEN Append(nextObj, <<key, res>>) ELSE nextObj

RECURSIVE applyPiiRules(_, _, _)
applyPiiRules(value, path, matchers) ==
    LET action == getPiiAction(path, matchers)
        RECURSIVE forEachItem(_, _)
        forEachItem(idx, nextArr) ==
            IF idx >= Len(value.v) THEN nextArr
            ELSE forEachItem(idx + 1,
                    ArrPush(nextArr,
                            applyPiiRules(value.v[idx + 1], ChildPath(path, NumToChars(idx)), matchers)))
        RECURSIVE forEachEntry(_, _)
        forEachEntry(i, nextObj) ==
            IF i > Len(value.v) THEN nextObj
            ELSE forEachEntry(i + 1,
                    ObjPut(nextObj, value.v[i][1],
                           applyPiiRules(value.v[i][2], ChildPath(path, value.v[i][1]), matchers)))
    IN  IF action = "hide" THEN REMOVE_FIELD
        ELSE IF action = "mask" THEN Masked
        ELSE IF action = "partial" THEN partialMaskValue(value)
        ELSE IF value.t = "arr" THEN Arr(forEachItem(0, <<>>))
        ELSE IF value.t = "obj" THEN Obj(forEachEntry(1, <<>>))
        ELSE value

K_source == <<"_", "s", "o", "u", "r", "c", "e">>
K_hits == <<"h", "i", "t", "s">>

applyPiiRulesToHits(hits, rules) ==
    IF hits.t # "arr" \/ Len(hits.v) = 0 THEN hits
    ELSE LET matchers == buildPiiMatchers(rules)
         IN  IF Len(matchers) = 0 THEN hits
             ELSE Arr([i \in 1..Len(hits.v) |->
                        LET hit == hits.v[i]
                        IN  IF ~Truthy(hit) \/ ~Truthy(Get(hit, K_source)) THEN hit
                            ELSE LET masked == applyPiiRules(Get(hit, K_source), <<>>, matchers)
                                 IN  SpreadSet(hit, K_source,
                                               IF masked = REMOVE_FIELD THEN Obj(<<>>) ELSE masked)])

maskSearchResponse(data, rules) ==
    IF ~Truthy(data) \/ ~Truthy(Get(data, K_hits)) \/ Get(Get(data, K_hits), K_hits).t # "arr"
    THEN data
    ELSE LET maskedHits == applyPiiRulesToHits(Get(Get(data, K_hits), K_hits), rules)
         IN  SpreadSet(data, K_hits, SpreadSet(Get(data, K_hits), K_hits, maskedHits))

(***************************************************************************)
(* Routes: the index guard of a request, and GET /api/config               *)
(***************************************************************************)
\* The guard step shared by the search, export-estimate, export and
\* field-explorer routes: authEnabled() && req.user && !isIndexPatternAllowed(...)
RouteDenied(reqUser, indexPattern) ==
    authEnabled /\ reqUser # None /\ ~isIndexPatternAllowed(reqUser, indexPattern)

RouteGuard ==
    LET req == ApiAuthMiddleware("/search", request.bearer)
        indexPattern == request.indexPattern
    IN  /\ request # None
        /\ request.route = "guard"
        /\ req.status = 0
        /\ request' = None
        /\ guardCall' = [user |-> req.user,
                         indexPattern |-> indexPattern,
                         patterns |-> getAllowedIndexPatterns(req.user),
                         allowed |-> isIndexPatternAllowed(req.user, indexPattern),
                         status |-> IF RouteDenied(req.user, indexPattern) THEN 403 ELSE 200]
        /\ UNCHANGED <<extVars, users, userIndexAccess, teamIndexAccess, indexOptions,
                       indexPatternSettings, defaultIndexPattern, piiFieldRules,
                       piiIn, piiOut, configResp, pipeVars>>

\* app.get('/api/config'): the index part of the response
GetApiConfig ==
    LET bearer == request.bearer
        req == ApiAuthMiddleware("/config", bearer)
        user == IF authEnabled THEN req.user ELSE None
        options == filterIndexOptionsForUser(user, indexOptions)
        settings == SelectSeq(indexPatternSettings, LAMBDA entry :
                        /\ entry.pattern # <<>>
                        /\ (user = None \/ user.role = "admin"
                              \/ isIndexPatternAllowed(user, entry.pattern)))
        default == IF /\ defaultIndexPattern # <<>>
                      /\ (user = None \/ user.role = "admin"
                            \/ isIndexPatternAllowed(user, defaultIndexPattern))
                   THEN defaultIndexPattern
                   ELSE IF Len(options) > 0 THEN OptionPattern(options[1]) ELSE <<>>
    IN  /\ request # None
        /\ request.route = "config"
        /\ req.status = 0
        /\ request' = None
        /\ configResp' = [bearer |-> bearer,
                          indexOptions |-> options,
                          indexPatternSettings |-> settings,
                          defaultIndexPattern |-> default]
        /\ UNCHANGED <<extVars, users, userIndexAccess, teamIndexAccess, indexOptions,
                       indexPatternSettings, defaultIndexPattern, piiFieldRules,
                       piiIn, piiOut, guardCall, pipeVars>>

(***************************************************************************)
(* JSON.stringify and Date.prototype.toISOString                           *)
(***************************************************************************)
RECURSIVE JsonEscape(_)
JsonEscape(chars) ==
    IF chars = <<>> THEN <<>>
    ELSE LET c == Head(chars)
             e == IF c = "\"" THEN <<"\\", "\"">>
                  ELSE IF c = "\\" THEN <<"\\", "\\">>
                  ELSE IF c = NL THEN <<"\\", "n">>
                  ELSE <<c>>
         IN  e \o JsonEscape(Tail(chars))

JsonQuote(chars) == <<"\"">> \o JsonEscape(chars) \o <<"\"">>

\* JSON.stringify(value); an undefined property is left out, an undefined
\* array element is written as null.
RECURSIVE JsonStringify(_)
JsonStringify(value) ==
    CASE value.t = "str" -> JsonQuote(value.v)
      [] value.t = "num" -> NumToChars(value.v)
      [] value.t = "bool" -> IF value.v THEN <<"t", "r", "u", "e">> ELSE <<"f", "a", "l", "s", "e">>
      [] value.t = "null" -> <<"n", "u", "l", "l">>
      [] value.t = "arr" ->
            <<"[">> \o Join([i \in 1..Len(value.v) |->
                                IF value.v[i].t = "undefined" THEN <<"n", "u", "l", "l">>
                                ELSE JsonStringify(value.v[i])], <<",">>) \o <<"]">>
      [] value.t = "obj" ->
            LET kept == SelectSeq(value.v, LAMBDA e : e[2].t # "undefined")
            IN  <<"{">> \o Join([i \in 1..Len(kept) |->
                                    JsonQuote(kept[i][1]) \o <<":">> \o JsonStringify(kept[i][2])],
                                <<",">>) \o <<"}">>

\* n written with at least w digits
Pad(n, w) ==
    LET d == NumToChars(n)
    IN  [i \in 1..(IF Len(d) < w THEN w - Len(d) ELSE 0) |-> "0"] \o d

\* new Date(ms).toISOString(): the proleptic Gregorian date and UTC time of ms
ToISOString(ms) ==
    LET days == ms \div 86400000
        rem == ms % 86400000
        z == days + 719468
        era == z \div 146097
        doe == z % 146097
        yoe == (doe - doe \div 1460 + doe \div 36524 - doe \div 146096) \div 365
        doy == doe - (365 * yoe + yoe \div 4 - yoe \div 100)
        mp == (5 * doy + 2) \div 153
        d == doy - (153 * mp + 2) \div 5 + 1
        m == IF mp < 10 THEN mp + 3 ELSE mp - 9
        y == yoe + era * 400 + (IF m <= 2 THEN 1 ELSE 0)
    IN  Pad(y, 4) \o <<"-">> \o Pad(m, 2) \o <<"-">> \o Pad(d, 2) \o <<"T">>
        \o Pad(rem \div 3600000, 2) \o <<":">> \o Pad((rem % 3600000) \div 60000, 2)
        \o <<":">> \o Pad((rem % 60000) \div 1000, 2) \o <<".">> \o Pad(rem % 1000, 3)
        \o <<"Z">>

(***************************************************************************)
(* Feature toggles                                                         *)
(***************************************************************************)
DefaultToggle ==
    [exports |-> TRUE, bookmarks |-> TRUE, rules |-> TRUE, queryBuilder |-> TRUE,
     limitTo7Days |-> FALSE, piiUnmasked |-> FALSE, showFullResults |-> FALSE]

getTeamToggle(team) ==
    IF featureToggles[team] # None THEN featureToggles[team] ELSE DefaultToggle

RECURSIVE ReduceToggles(_, _)
ReduceToggles(teams, acc) ==
    IF teams = <<>> THEN acc
    ELSE LET t == getTeamToggle(Head(teams))
         IN  ReduceToggles(Tail(teams),
                [exports |-> acc.exports \/ t.exports,
                 bookmarks |-> acc.bookmarks \/ t.bookmarks,
                 rules |-> acc.rules \/ t.rules,
                 queryBuilder |-> acc.queryBuilder \/ t.queryBuilder,
                 limitTo7Days |-> acc.limitTo7Days \/ t.limitTo7Days,
                 piiUnmasked |-> acc.piiUnmasked \/ t.piiUnmasked,
                 showFullResults |-> acc.showFullResults \/ t.showFullResults])

\* A variant in which limitTo7Days holds only when every team imposes it.
getUserFeaturesEveryTeamLimits(user) ==
    LET defaults == [exports |-> FALSE, bookmarks |-> FALSE, rules |-> FALSE,
                     queryBuilder |-> FALSE, limitTo7Days |-> FALSE, piiUnmasked |-> FALSE,
                     showFullResults |-> FALSE]
    IN  IF ~authEnabled THEN DefaultToggle
        ELSE IF user = None THEN defaults
        ELSE [ReduceToggles(user.teams, defaults) EXCEPT !.limitTo7Days =
                \A i \in 1..Len(user.teams) : getTeamToggle(user.teams[i]).limitTo7Days]

getUserFeatures(user) ==
    LET defaults == [exports |-> FALSE, bookmarks |-> FALSE, rules |-> FALSE,
                     queryBuilder |-> FALSE, limitTo7Days |-> FALSE, piiUnmasked |-> FALSE,
                     showFullResults |-> FALSE]
    IN  IF ~authEnabled THEN DefaultToggle
        ELSE IF user = None THEN defaults
        ELSE ReduceToggles(user.teams, defaults)

\* authEnabled() && req.user ? getUserFeatures(req.user) : { limitTo7Days: false, piiUnmasked: false }
RouteFeatures(reqUser) ==
    IF authEnabled /\ reqUser # None THEN getUserFeatures(reqUser)
    ELSE [limitTo7Days |-> FALSE, piiUnmasked |-> FALSE]

\* authEnabled() && req.user ? req.user.id : 'public'
RouteUserKey(reqUser) ==
    IF authEnabled /\ reqUser # None THEN reqUser.id ELSE <<"p", "u", "b", "l", "i", "c">>

(***************************************************************************)
(* ResponseCache                                                           *)
(***************************************************************************)
\* The default of process.env.CACHE_TTL_MS; process.env.CACHE_MAX_ENTRIES
\* (set to 2, to let the size limit act)
DefaultCacheTtlMs == 15000
CACHE_MAX_ENTRIES == 2

getCacheKey(parts) == Join([i \in 1..Len(parts) |-> JsString(parts[i])], <<"|">>)

CacheIndex(key) ==
    IF \E i \in 1..Len(responseCache) : responseCache[i].key = key
    THEN CHOOSE i \in 1..Len(responseCache) : responseCache[i].key = key
    ELSE 0

RemoveAt(seq, i) == [j \in 1..(Len(seq) - 1) |-> IF j < i THEN seq[j] ELSE seq[j + 1]]

\* A variant for which an entry is expired from the instant expiresAt on.
cacheGetExpiredAtExpiresAt(key) ==
    LET i == CacheIndex(key)
    IN  IF CACHE_TTL_MS = 0 THEN Null
        ELSE IF i = 0 THEN Null
        ELSE IF now >= responseCache[i].expiresAt THEN Null
        ELSE responseCache[i].value

\* cacheGet(key): the value returned (Null on a miss) ...
cacheGet(key) ==
    LET i == CacheIndex(key)
    IN  IF CACHE_TTL_MS = 0 THEN Null
        ELSE IF i = 0 THEN Null
        ELSE IF now > responseCache[i].expiresAt THEN Null
        ELSE responseCache[i].value

\* ... and the cache it leaves: an expired entry is deleted
cacheAfterGet(key) ==
    LET i == CacheIndex(key)
    IN  IF CACHE_TTL_MS # 0 /\ i # 0 /\ now > responseCache[i].expiresAt
        THEN RemoveAt(responseCache, i)
        ELSE responseCache

\* A variant that moves an overwritten key to the end of the Map.
cacheSetMoveToEnd(cache, key, value) ==
    LET entry == [key |-> key, value |-> value, expiresAt |-> now + CACHE_TTL_MS]
        set == Append(SelectSeq(cache, LAMBDA e : e.key # key), entry)
    IN  IF CACHE_TTL_MS = 0 THEN cache
        ELSE IF Len(set) > CACHE_MAX_ENTRIES THEN Tail(set)
        ELSE set

\* cacheSet(key, value) on the cache `cache`
cacheSet(cache, key, value) ==
    LET entry == [key |-> key, value |-> value, expiresAt |-> now + CACHE_TTL_MS]
        has == \E i \in 1..Len(cache) : cache[i].key = key
        set == IF has
               THEN [i \in 1..Len(cache) |-> IF cache[i].key = key THEN entry ELSE cache[i]]
               ELSE Append(cache, entry)
    IN  IF CACHE_TTL_MS = 0 THEN cache
        ELSE IF Len(set) > CACHE_MAX_ENTRIES THEN Tail(set)
        ELSE set

(***************************************************************************)
(* The recent-only filter                                                  *)
(***************************************************************************)
K_bool == <<"b", "o", "o", "l">>
K_filter == <<"f", "i", "l", "t", "e", "r">>
K_must == <<"m", "u", "s", "t">>
K_should == <<"s", "h", "o", "u", "l", "d">>
K_range == <<"r", "a", "n", "g", "e">>
K_gte == <<"g", "t", "e">>
K_lte == <<"l", "t", "e">>
K_format == <<"f", "o", "r", "m", "a", "t">>
K_query == <<"q", "u", "e", "r", "y">>
K_minimum_should_match == <<"m", "i", "n", "i", "m", "u", "m", "_", "s", "h", "o", "u", "l", "d", "_", "m", "a", "t", "c", "h">>
StrictDateOptionalTime == Str(<<"s", "t", "r", "i", "c", "t", "_", "d", "a", "t", "e", "_", "o", "p", "t", "i", "o", "n", "a", "l", "_", "t", "i", "m", "e">>)
TimestampField == <<"t", "i", "m", "e", "s", "t", "a", "m", "p">>
AtTimestampField == <<"@", "t", "i", "m", "e", "s", "t", "a", "m", "p">>

getIndexTimeFields(indexPattern) ==
    LET found == SelectSeq(indexPatternSettings, LAMBDA entry : entry.pattern = indexPattern)
    IN  IF found # <<>> /\ found[1].timeField # <<>>
        THEN <<found[1].timeField, TimestampField, AtTimestampField>>
        ELSE <<TimestampField, AtTimestampField>>

SevenDaysMs == 7 * 24 * 60 * 60 * 1000
graceMs == 5 * 60 * 1000

getRecentCutoffIso == ToISOString(now - SevenDaysMs - graceMs)

\* the { bool: { should: [...], minimum_should_match: 1 } } of both filter builders
ShouldOneOf(ranges) ==
    IF Len(ranges) = 1 THEN ranges[1]
    ELSE Obj(<< <<K_bool, Obj(<< <<K_should, Arr(ranges)>>,
                                 <<K_minimum_should_match, Num(1)>> >>)>> >>)

buildRecentOnlyFilter(indexPattern) ==
    LET cutoff == getRecentCutoffIso
        rangeFor(field) ==
            Obj(<< <<K_range, Obj(<< <<field, Obj(<< <<K_gte, Str(cutoff)>>,
                                                     <<K_format, StrictDateOptionalTime>> >>)>> >>)>> >>)
        fields == getIndexTimeFields(indexPattern)
    IN  ShouldOneOf([i \in 1..Len(fields) |-> rangeFor(fields[i])])

buildTimeRangeFilter(indexPattern, start, end) ==
    LET rangeFor(field) ==
            Obj(<< <<K_range, Obj(<< <<field, Obj(<< <<K_gte, start>>, <<K_lte, end>>,
                                                     <<K_format, StrictDateOptionalTime>> >>)>> >>)>> >>)
        fields == getIndexTimeFields(indexPattern)
    IN  ShouldOneOf([i \in 1..Len(fields) |-> rangeFor(fields[i])])

\* { ...obj }: the own properties of an object or array, none of anything else
Spread(value) ==
    IF value.t = "obj" THEN value
    ELSE IF value.t = "arr"
    THEN Obj([i \in 1..Len(value.v) |-> <<NumToChars(i - 1), value.v[i]>>])
    ELSE Obj(<<>>)

IsObjectType(value) == value.t \in {"obj", "arr", "null"}

\* A variant that leaves a query with a bool.filter of its own as it is.
applyRecentOnlyFilterToQueryKeepFilter(query, indexPattern) ==
    LET recentFilter == buildRecentOnlyFilter(indexPattern)
    IN  IF ~Truthy(query) \/ ~IsObjectType(query)
        THEN Obj(<< <<K_bool, Obj(<< <<K_filter, Arr(<<recentFilter>>)>> >>)>> >>)
        ELSE IF Truthy(Get(query, K_bool)) /\ IsObjectType(Get(query, K_bool))
        THEN IF Truthy(Get(Get(query, K_bool), K_filter)) THEN query
             ELSE SpreadSet(Spread(query), K_bool,
                            SpreadSet(Spread(Get(query, K_bool)), K_filter, Arr(<<recentFilter>>)))
        ELSE Obj(<< <<K_bool, Obj(<< <<K_must, Arr(<<query>>)>>,
                                     <<K_filter, Arr(<<recentFilter>>)>> >>)>> >>)

\* A variant that replaces the caller's bool.filter by the recent filter.
applyRecentOnlyFilterToQueryReplaceFilter(query, indexPattern) ==
    LET recentFilter == buildRecentOnlyFilter(indexPattern)
    IN  IF ~Truthy(query) \/ ~IsObjectType(query)
        THEN Obj(<< <<K_bool, Obj(<< <<K_filter, Arr(<<recentFilter>>)>> >>)>> >>)
        ELSE IF Truthy(Get(query, K_bool)) /\ IsObjectType(Get(query, K_bool))
        THEN SpreadSet(Spread(query), K_bool,
                       SpreadSet(Spread(Get(query, K_bool)), K_filter, Arr(<<recentFilter>>)))
        ELSE Obj(<< <<K_bool, Obj(<< <<K_must, Arr(<<query>>)>>,
                                     <<K_filter, Arr(<<recentFilter>>)>> >>)>> >>)

applyRecentOnlyFilterToQuery(query, indexPattern) ==
    LET recentFilter == buildRecentOnlyFilter(indexPattern)
    IN  IF ~Truthy(query) \/ ~IsObjectType(query)
        THEN Obj(<< <<K_bool, Obj(<< <<K_filter, Arr(<<recentFilter>>)>> >>)>> >>)
        ELSE IF Truthy(Get(query, K_bool)) /\ IsObjectType(Get(query, K_bool))
        THEN LET bool == Get(query, K_bool)
                 filter == Get(bool, K_filter)
                 nextFilter == IF filter.t = "arr" THEN Arr(Append(filter.v, recentFilter))
                               ELSE IF Truthy(filter) THEN Arr(<<filter, recentFilter>>)
                               ELSE Arr(<<recentFilter>>)
             IN  SpreadSet(Spread(query), K_bool, SpreadSet(Spread(bool), K_filter, nextFilter))
        ELSE Obj(<< <<K_bool, Obj(<< <<K_must, Arr(<<query>>)>>,
                                     <<K_filter, Arr(<<recentFilter>>)>> >>)>> >>)

(***************************************************************************)
(* The state of the alert scheduler: rules, rulesState, hourly counts       *)
(***************************************************************************)
\* Date.now() when the process starts: 1970-01-11T00:00:00.000Z
StartMs == 10 * 24 * 60 * 60 * 1000

RuleIds == {"r1", "r2", "r3"}

HourMs == 60 * 60 * 1000

\* getHourKey(date): date.toISOString().slice(0, 13)
getHourKey(ms) == SubSeq(ToISOString(ms), 1, 13)

MaxAlertTicks == 14

\* The hours that the scheduler can read or a search can count in
AlertHours == {getHourKey(StartMs + h * HourMs) : h \in (0 - 2)..((MaxAlertTicks \div 12) + 1)}

AlertQueries == {<<"e", "r", "r", "o", "r">>}

\* const q = query || '(match_all)'
MatchAllText == <<"(", "m", "a", "t", "c", "h", "_", "a", "l", "l", ")">>

\* The query texts that metrics.hourlyQueries counts
CountedQueries == AlertQueries \cup {MatchAllText}

\* No rule is configured, no rule has triggered, no query has been counted,
\* no mail setting is configured and no run of runRuleChecks is suspended.
AlertIdle ==
    /\ alertRules = <<>>
    /\ lastTriggeredAt = [id \in RuleIds |-> <<>>]
    /\ hourlyQueries = [h \in AlertHours |-> [q \in CountedQueries |-> 0]]
    /\ smtp = [host |-> <<>>, to |-> <<>>, from |-> <<>>]
    /\ alertRuns = <<>>
    /\ evalLog = <<>>
    /\ lastSentAt = [id \in RuleIds |-> 0 - 1]

(***************************************************************************)
(* What clients send and what the search engine answers                    *)
(***************************************************************************)
Range(seq) == {seq[i] : i \in 1..Len(seq)}

PathA == <<"a">>
PathB == <<"b">>

K_id == <<"_", "i", "d">>
HitOf(doc) == Obj(<< <<K_id, Str(<<"1">>)>>, <<K_source, doc>> >>)

K_indexPattern == <<"i", "n", "d", "e", "x", "P", "a", "t", "t", "e", "r", "n">>
K_size == <<"s", "i", "z", "e">>
K_total == <<"t", "o", "t", "a", "l">>
K_value == <<"v", "a", "l", "u", "e">>
K_scroll_id == <<"_", "s", "c", "r", "o", "l", "l", "_", "i", "d">>
K_match_all == <<"m", "a", "t", "c", "h", "_", "a", "l", "l">>
K_term == <<"t", "e", "r", "m">>

MatchAll == Obj(<< <<K_match_all, Obj(<<>>)>> >>)
TermA == Obj(<< <<K_term, Obj(<< <<PathA, Str(<<"p">>)>> >>)>> >>)
\* a query with a bool.filter of its own
BoolFilter == Obj(<< <<K_bool, Obj(<< <<K_filter, Arr(<<TermA>>)>> >>)>> >>)

\* req.body.query: absent, or one of the queries
Queries == {Undefined, BoolFilter}

ReqUsers == {Alice, Bob}
ReqBearers == ReqUsers
ReqIndexes == {<<"a">>, <<"b">>}

SearchBody(query) == Obj(<< <<K_query, query>> >>)

\* hits: one with a nested _source, one without _source
HitNested == Obj(<< <<K_id, Str(<<"1">>)>>,
                    <<K_source, Obj(<< <<PathA, Str(<<"p">>)>>,
                                       <<PathB, Obj(<< <<<<"c">>, Str(<<"q">>)>> >>)>> >>)>> >>)
HitFlat == Obj(<< <<K_id, Str(<<"2">>)>>,
                  <<K_source, Obj(<< <<PathA, Num(7)>>, <<PathB, Null>> >>)>> >>)
\* a hit with other fields than the two above
HitOther == Obj(<< <<K_id, Str(<<"4">>)>>,
                   <<K_source, Obj(<< <<<<"d">>, Str(<<"r">>)>>, <<PathA, Str(<<"p">>)>> >>)>> >>)
HitBare == Obj(<< <<K_id, Str(<<"3">>)>> >>)

HitsData(hits) ==
    Obj(<< <<K_scroll_id, Str(<<"s">>)>>,
           <<K_hits, Obj(<< <<K_total, Obj(<< <<K_value, Num(Len(hits))>> >>)>>,
                            <<K_hits, Arr(hits)>> >>)>> >>)

SearchData == {HitsData(<<HitNested, HitBare>>), HitsData(<<HitFlat>>)}
EngineErrors == {500}

(***************************************************************************)
(* POST /api/search/:indexPattern/_search                                  *)
(***************************************************************************)
K_pattern == <<"p", "a", "t", "t", "e", "r", "n">>
K_action == <<"a", "c", "t", "i", "o", "n">>
ActionName(action) ==
    CASE action = "hide" -> <<"h", "i", "d", "e">>
      [] action = "partial" -> <<"p", "a", "r", "t", "i", "a", "l">>
      [] action = "mask" -> <<"m", "a", "s", "k">>

\* appConfig.piiFieldRules as the JSON value that JSON.stringify sees
RulesJson(rules) ==
    Arr([i \in 1..Len(rules) |->
            Obj(<< <<K_pattern, Str(rules[i].pattern)>>,
                   <<K_action, Str(ActionName(rules[i].action))>> >>)])

\* features.limitTo7Days ? { ...req.body, query: applyRecentOnlyFilterToQuery(...) } : req.body
SearchEffectiveBody(features, body, indexPattern) ==
    IF features.limitTo7Days
    THEN SpreadSet(Spread(body), K_query,
                   applyRecentOnlyFilterToQuery(Get(body, K_query), indexPattern))
    ELSE body

\* Variants of the search cache key: without the user, without the masking mode
SearchCacheKeyNoUser(userKey, indexPattern, features, effectiveBody) ==
    getCacheKey(<<Str(<<"s", "e", "a", "r", "c", "h">>),
                  Str(indexPattern),
                  Str(IF features.piiUnmasked THEN <<"p", "i", "i", "-", "u", "n", "m", "a", "s", "k", "e", "d">> ELSE <<"p", "i", "i", "-", "m", "a", "s", "k", "e", "d">>),
                  Str(JsonStringify(RulesJson(piiFieldRules))),
                  Str(JsonStringify(IF Truthy(effectiveBody) THEN effectiveBody ELSE Obj(<<>>)))>>)

SearchCacheKeyNoMode(userKey, indexPattern, features, effectiveBody) ==
    getCacheKey(<<Str(<<"s", "e", "a", "r", "c", "h">>),
                  Str(userKey),
                  Str(indexPattern),
                  Str(JsonStringify(RulesJson(piiFieldRules))),
                  Str(JsonStringify(IF Truthy(effectiveBody) THEN effectiveBody ELSE Obj(<<>>)))>>)

SearchCacheKey(userKey, indexPattern, features, effectiveBody) ==
    getCacheKey(<<Str(<<"s", "e", "a", "r", "c", "h">>),
                  Str(userKey),
                  Str(indexPattern),
                  Str(IF features.piiUnmasked THEN <<"p", "i", "i", "-", "u", "n", "m", "a", "s", "k", "e", "d">> ELSE <<"p", "i", "i", "-", "m", "a", "s", "k", "e", "d">>),
                  Str(JsonStringify(RulesJson(piiFieldRules))),
                  Str(JsonStringify(IF Truthy(effectiveBody) THEN effectiveBody ELSE Obj(<<>>)))>>)

\* What the handler does before its await: refuse, answer from the cache,
\* or forward to the search engine.
SearchStepCacheFirst(denied, cached) ==
    IF Truthy(cached) THEN "cached" ELSE IF denied THEN "denied" ELSE "forward"

SearchStep(denied, cached) ==
    IF denied THEN "denied" ELSE IF Truthy(cached) THEN "cached" ELSE "forward"

K_error == <<"e", "r", "r", "o", "r">>
Unauthorized == Obj(<< <<K_error, Str(<<"U", "n", "a", "u", "t", "h", "o", "r", "i", "z", "e", "d">>)>> >>)
IndexNotAllowed == Obj(<< <<K_error, Str(<<"I", "n", "d", "e", "x", " ", "n", "o", "t", " ", "a", "l", "l", "o", "w", "e", "d", " ", "f", "o", "r", " ", "y", "o", "u", "r", " ", "t", "e", "a", "m", ".">>)>> >>)
FeatureDisabled == Obj(<< <<K_error, Str(<<"F", "e", "a", "t", "u", "r", "e", " ", "d", "i", "s", "a", "b", "l", "e", "d">>)>> >>)

\* A response: the request it answers, who req.user was, and what was sent.
Reply(reqUser, status, body, fromCache) ==
    [req |-> request, user |-> reqUser, status |-> status, body |-> body,
     fromCache |-> fromCache, ended |-> TRUE]

\* A request to the search engine; `at` is Date.now() when it is sent,
\* `user` and `toggles` are req.user and the feature toggles its handler saw.
EngineCall(kind, reqUser, toggles, indexPattern, body) ==
    [kind |-> kind, route |-> request.route, user |-> reqUser, toggles |-> toggles,
     indexPattern |-> indexPattern, body |-> body, at |-> now]

K_query_string == <<"q", "u", "e", "r", "y", "_", "s", "t", "r", "i", "n", "g">>

\* extractQueryString(body): the text of the first query_string.query found
\* in the body, depth first in the order of the keys; '' when there is none
RECURSIVE extractQueryString(_)
extractQueryString(body) ==
    IF body.t \notin {"obj", "arr"} THEN <<>>
    ELSE IF /\ body.t = "obj"
            /\ Get(body, K_query_string).t = "obj"
            /\ Get(Get(body, K_query_string), K_query).t = "str"
    THEN Get(Get(body, K_query_string), K_query).v
    ELSE LET vals == IF body.t = "obj" THEN [i \in 1..Len(body.v) |-> body.v[i][2]] ELSE body.v
             found == [i \in 1..Len(vals) |->
                         IF vals[i].t \in {"obj", "arr"} THEN extractQueryString(vals[i])
                         ELSE <<>>]
         IN  IF \E i \in 1..Len(found) : found[i] # <<>>
             THEN found[CHOOSE i \in 1..Len(found) :
                            found[i] # <<>> /\ \A j \in 1..(i - 1) : found[j] = <<>>]
             ELSE <<>>

\* recordSearch, its hourly part: metrics.hourlyQueries[hourKey][q] += 1
recordSearchHourly(query) ==
    LET q == IF query # <<>> THEN query ELSE MatchAllText
    IN  IF getHourKey(now) \in DOMAIN hourlyQueries /\ q \in DOMAIN hourlyQueries[getHourKey(now)]
        THEN [hourlyQueries EXCEPT ![getHourKey(now)][q] = @ + 1]
        ELSE hourlyQueries

recordSearch == [metrics EXCEPT !.searches = @ + 1]
recordExport == [metrics EXCEPT !.exports = @ + 1]

\* the entries of storedBy whose key is still in the cache
Stored(cache, by) == {s \in by : \E i \in 1..Len(cache) : cache[i].key = s.key}

\* features.piiUnmasked ? response.data : maskSearchResponse(response.data, appConfig.piiFieldRules)
\* A variant that masks the hits themselves, not their _source.
SearchMaskedWholeHits(features, data) ==
    IF features.piiUnmasked \/ Get(Get(data, K_hits), K_hits).t # "arr" THEN data
    ELSE LET hits == Get(Get(data, K_hits), K_hits)
             matchers == buildPiiMatchers(piiFieldRules)
             maskedHits == Arr([i \in 1..Len(hits.v) |->
                                 applyPiiRules(hits.v[i], <<>>, matchers)])
         IN  SpreadSet(data, K_hits, SpreadSet(Get(data, K_hits), K_hits, maskedHits))

SearchMasked(features, data) ==
    IF features.piiUnmasked THEN data ELSE maskSearchResponse(data, piiFieldRules)

PostSearch ==
    /\ request # None
    /\ request.route = "search"
    /\ \E mw \in {ApiAuthMiddleware("/search", request.bearer)} :
       \E features \in {RouteFeatures(mw.user)} :
       \E effectiveBody \in {SearchEffectiveBody(features, request.body, request.indexPattern)} :
       \E cacheKey \in {SearchCacheKey(RouteUserKey(mw.user), request.indexPattern,
                                       features, effectiveBody)} :
       \E cached \in {cacheGet(cacheKey)} :
       \E step \in {IF mw.status # 0 THEN "unauthorized"
                    ELSE SearchStep(RouteDenied(mw.user, request.indexPattern), cached)} :
           /\ request' = None
           /\ CASE step = "unauthorized" ->
                    /\ response' = Reply(None, 401, Unauthorized, FALSE)
                    /\ UNCHANGED <<responseCache, storedBy, inflight, engineCall>>
                [] step = "denied" ->
                    /\ response' = Reply(mw.user, 403, IndexNotAllowed, FALSE)
                    /\ UNCHANGED <<responseCache, storedBy, inflight, engineCall>>
                [] step = "cached" ->
                    /\ response' = [req |-> request, user |-> mw.user, status |-> 200,
                                    body |-> cached, fromCache |-> TRUE, ended |-> TRUE,
                                    key |-> cacheKey, features |-> features]
                    /\ responseCache' = cacheAfterGet(cacheKey)
                    /\ storedBy' = Stored(responseCache', storedBy)
                    /\ UNCHANGED <<inflight, engineCall>>
                [] step = "forward" ->
                    /\ responseCache' = cacheAfterGet(cacheKey)
                    /\ storedBy' = Stored(responseCache', storedBy)
                    /\ engineCall' = EngineCall("search", mw.user, featureToggles,
                                                request.indexPattern, effectiveBody)
                    /\ inflight' = [req |-> request, await |-> "search", user |-> mw.user,
                                    features |-> features, cacheKey |-> cacheKey,
                                    keyRules |-> piiFieldRules]
                    /\ UNCHANGED response
    /\ UNCHANGED <<extVars, users, userIndexAccess, teamIndexAccess, indexOptions, indexPatternSettings,
                   defaultIndexPattern, piiFieldRules, piiIn, piiOut, guardCall, configResp,
                   featureToggles, now, metrics, budget>>

\* storedBy keeps, for the entry written, the PII rules that were serialized
\* into its key before the await and the PII rules the response was masked with.
SearchReturns ==
    /\ inflight # None
    /\ inflight.await = "search"
    /\ \E data \in SearchData :
        \E masked \in {SearchMasked(inflight.features, data)} :
            /\ metrics' = recordSearch
            /\ hourlyQueries' = recordSearchHourly(extractQueryString(inflight.req.body))
            /\ responseCache' = cacheSet(responseCache, inflight.cacheKey, masked)
            /\ storedBy' = Stored(responseCache',
                                  {s \in storedBy : s.key # inflight.cacheKey}
                                    \cup {[key |-> inflight.cacheKey, req |-> inflight.req,
                                           user |-> inflight.user,
                                           features |-> inflight.features,
                                           keyRules |-> inflight.keyRules,
                                           maskRules |-> piiFieldRules]})
            /\ response' = [req |-> inflight.req, user |-> inflight.user, status |-> 200,
                            body |-> masked, fromCache |-> FALSE, ended |-> TRUE,
                            features |-> inflight.features, data |-> data,
                            rules |-> piiFieldRules]
    /\ inflight' = None
    /\ UNCHANGED <<CACHE_TTL_MS, fnCall, cacheLog, alertRules, lastTriggeredAt, smtp, alertRuns,
                   evalLog, lastSentAt, users, userIndexAccess, teamIndexAccess, indexOptions, indexPatternSettings,
                   defaultIndexPattern, piiFieldRules, request, piiIn, piiOut, guardCall,
                   configResp, featureToggles, now, engineCall, budget>>

SearchFails ==
    /\ inflight # None
    /\ inflight.await = "search"
    /\ \E status \in EngineErrors :
        response' = [req |-> inflight.req, user |-> inflight.user, status |-> status,
                     body |-> Obj(<< <<K_error, Str(<<"S", "e", "a", "r", "c", "h", " ", "f", "a", "i", "l", "e", "d">>)>> >>),
                     fromCache |-> FALSE, ended |-> TRUE]
    /\ inflight' = None
    /\ UNCHANGED <<extVars, users, userIndexAccess, teamIndexAccess, indexOptions, indexPatternSettings,
                   defaultIndexPattern, piiFieldRules, request, piiIn, piiOut, guardCall,
                   configResp, featureToggles, responseCache, storedBy, now, engineCall,
                   metrics, budget>>

(***************************************************************************)
(* POST /api/export/estimate and POST /api/export/:format                  *)
(***************************************************************************)
\* process.env.MAX_EXPORT_SIZE (set to 2, to let the size limit act)
maxExportSize == 2

K_sort == <<"s", "o", "r", "t">>
K_order == <<"o", "r", "d", "e", "r">>
K_unmapped_type == <<"u", "n", "m", "a", "p", "p", "e", "d", "_", "t", "y", "p", "e">>
K_track_total_hits == <<"t", "r", "a", "c", "k", "_", "t", "o", "t", "a", "l", "_", "h", "i", "t", "s">>
K_scroll == <<"s", "c", "r", "o", "l", "l">>
K_message == <<"m", "e", "s", "s", "a", "g", "e">>

SortSpec ==
    LET by(field) == Obj(<< <<field, Obj(<< <<K_order, Str(<<"d", "e", "s", "c">>)>>,
                                            <<K_unmapped_type, Str(<<"d", "a", "t", "e">>)>> >>)>> >>)
    IN  Arr(<<by(TimestampField), by(AtTimestampField)>>)

\* const { query, indexPattern = appConfig.defaultIndexPattern } = req.body
BodyIndexPattern(body) ==
    IF Get(body, K_indexPattern) = Undefined THEN defaultIndexPattern
    ELSE Get(body, K_indexPattern).v

\* features.limitTo7Days ? applyRecentOnlyFilterToQuery(query, indexPattern) : (query || { match_all: {} })
EffectiveQuery(features, query, indexPattern) ==
    IF features.limitTo7Days THEN applyRecentOnlyFilterToQuery(query, indexPattern)
    ELSE IF Truthy(query) THEN query
    ELSE MatchAll

\* The checks of both export routes, in their order.
ExportGate(reqUser, features, indexPattern) ==
    IF ~authEnabled THEN "pass"
    ELSE IF reqUser = None THEN "unauthorized"
    ELSE IF ~features.exports THEN "disabled"
    ELSE IF ~isIndexPatternAllowed(reqUser, indexPattern) THEN "denied"
    ELSE "pass"

GateReply(reqUser, gate) ==
    CASE gate = "unauthorized" -> Reply(reqUser, 401, Unauthorized, FALSE)
      [] gate = "disabled" -> Reply(reqUser, 403, FeatureDisabled, FALSE)
      [] gate = "denied" -> Reply(reqUser, 403, IndexNotAllowed, FALSE)

PostExportEstimate ==
    /\ request # None
    /\ request.route = "estimate"
    /\ LET mw == ApiAuthMiddleware("/export/estimate", request.bearer)
           query == Get(request.body, K_query)
           indexPattern == BodyIndexPattern(request.body)
           features == RouteFeatures(mw.user)
           gate == IF mw.status # 0 THEN "unauthorized"
                   ELSE ExportGate(mw.user, features, indexPattern)
           searchBody == Obj(<< <<K_query, EffectiveQuery(features, query, indexPattern)>>,
                                <<K_size, Num(10)>>,
                                <<K_track_total_hits, Bool(TRUE)>>,
                                <<K_sort, SortSpec>> >>)
       IN  /\ request' = None
           /\ IF gate # "pass"
              THEN /\ response' = GateReply(mw.user, gate)
                   /\ UNCHANGED <<inflight, engineCall>>
              ELSE /\ engineCall' = EngineCall("search", mw.user, featureToggles,
                                               indexPattern, searchBody)
                   /\ inflight' = [req |-> request, await |-> "estimate", user |-> mw.user]
                   /\ UNCHANGED response
    /\ UNCHANGED <<extVars, users, userIndexAccess, teamIndexAccess, indexOptions, indexPatternSettings,
                   defaultIndexPattern, piiFieldRules, piiIn, piiOut, guardCall, configResp,
                   featureToggles, responseCache, storedBy, now, metrics, budget>>

RECURSIVE Sum(_)
Sum(seq) == IF seq = <<>> THEN 0 ELSE Head(seq) + Sum(Tail(seq))

\* a ?? b
Coalesce(a, b) == IF a.t \in {"undefined", "null"} THEN b ELSE a

EstimateOf(data) ==
    LET total == Get(Get(data, K_hits), K_total)
        totalHits == Coalesce(Get(total, K_value), Coalesce(total, Num(0))).v
        found == Get(Get(data, K_hits), K_hits)
        hits == IF Truthy(found) THEN found.v ELSE <<>>
        sizes == [i \in 1..Len(hits) |->
                    Len(JsonStringify(IF Truthy(Get(hits[i], K_source))
                                      THEN Get(hits[i], K_source) ELSE Obj(<<>>)))]
        avgBytes == IF Len(sizes) > 0 THEN (2 * Sum(sizes) + Len(sizes)) \div (2 * Len(sizes))
                    ELSE 0
    IN  Obj(<< <<<<"t", "o", "t", "a", "l", "H", "i", "t", "s">>, Num(totalHits)>>,
               <<<<"s", "a", "m", "p", "l", "e", "S", "i", "z", "e">>, Num(Len(sizes))>>,
               <<<<"a", "v", "g", "B", "y", "t", "e", "s">>, Num(avgBytes)>>,
               <<<<"e", "s", "t", "i", "m", "a", "t", "e", "d", "B", "y", "t", "e", "s">>, Num(avgBytes * totalHits)>>,
               <<<<"m", "a", "x", "E", "x", "p", "o", "r", "t", "S", "i", "z", "e">>, Num(maxExportSize)>> >>)

ExportEstimateReturns ==
    /\ inflight # None
    /\ inflight.await = "estimate"
    /\ \E data \in SearchData :
        response' = [req |-> inflight.req, user |-> inflight.user, status |-> 200,
                     body |-> EstimateOf(data), fromCache |-> FALSE, ended |-> TRUE]
    /\ inflight' = None
    /\ UNCHANGED <<extVars, users, userIndexAccess, teamIndexAccess, indexOptions, indexPatternSettings,
                   defaultIndexPattern, piiFieldRules, request, piiIn, piiOut, guardCall,
                   configResp, featureToggles, responseCache, storedBy, now, engineCall,
                   metrics, budget>>

ExportEstimateFails ==
    /\ inflight # None
    /\ inflight.await = "estimate"
    /\ response' = [req |-> inflight.req, user |-> inflight.user, status |-> 500,
                    body |-> Obj(<< <<K_error, Str(<<"E", "s", "t", "i", "m", "a", "t", "e", " ", "f", "a", "i", "l", "e", "d">>)>> >>),
                    fromCache |-> FALSE, ended |-> TRUE]
    /\ inflight' = None
    /\ UNCHANGED <<extVars, users, userIndexAccess, teamIndexAccess, indexOptions, indexPatternSettings,
                   defaultIndexPattern, piiFieldRules, request, piiIn, piiOut, guardCall,
                   configResp, featureToggles, responseCache, storedBy, now, engineCall,
                   metrics, budget>>

\* Object.keys(value): the keys of an object, the indices of a string or array
ObjectKeys(value) ==
    IF value.t = "obj" THEN [i \in 1..Len(value.v) |-> value.v[i][1]]
    ELSE IF value.t \in {"str", "arr"} THEN [i \in 1..Len(value.v) |-> NumToChars(i - 1)]
    ELSE <<>>

\* value[key]
Prop(value, key) ==
    IF value.t = "obj" THEN Get(value, key)
    ELSE IF value.t \in {"str", "arr"}
         /\ \E i \in 1..Len(value.v) : NumToChars(i - 1) = key
    THEN LET i == CHOOSE i \in 1..Len(value.v) : NumToChars(i - 1) = key
         IN  IF value.t = "str" THEN Str(<<value.v[i]>>) ELSE value.v[i]
    ELSE Undefined

\* Reading a property of it throws a TypeError
Nullish(value) == value.t \in {"undefined", "null"}

\* String(value), of any value
RECURSIVE JsToString(_)
JsToString(value) ==
    IF value.t = "obj" THEN <<"[", "o", "b", "j", "e", "c", "t", " ", "O", "b", "j", "e", "c", "t", "]">>
    ELSE IF value.t = "arr"
    THEN Join([i \in 1..Len(value.v) |->
                 IF Nullish(value.v[i]) THEN <<>> ELSE JsToString(value.v[i])], <<",">>)
    ELSE JsString(value)

RECURSIVE DoubleQuotes(_)
DoubleQuotes(chars) ==
    IF chars = <<>> THEN <<>>
    ELSE (IF Head(chars) = "\"" THEN <<"\"", "\"">> ELSE <<Head(chars)>>)
         \o DoubleQuotes(Tail(chars))

CsvHeaderLine(hits) ==
    LET headers == ObjectKeys(Get(hits[1], K_source))
    IN  Join([i \in 1..Len(headers) |-> <<"\"">> \o headers[i] \o <<"\"">>], <<",">>) \o <<NL>>

\* The chunks writeBatch(hits, format, stream) writes: one, or none
writeBatch(hits, format) ==
    IF format = "json"
    THEN << Join([i \in 1..Len(hits) |->
                 IF Get(hits[i], K_source) = Undefined THEN <<>>
                 ELSE JsonStringify(Get(hits[i], K_source))], <<NL>>) \o <<NL>> >>
    ELSE IF format = "csv"
    THEN LET headers == ObjectKeys(Get(hits[1], K_source))
             line(hit) == Join([j \in 1..Len(headers) |->
                                  LET val == Prop(Get(hit, K_source), headers[j])
                                  IN  IF Nullish(val) THEN <<>>
                                      ELSE <<"\"">> \o DoubleQuotes(JsToString(val)) \o <<"\"">>],
                               <<",">>)
         IN  << Join([i \in 1..Len(hits) |-> line(hits[i])], <<NL>>) \o <<NL>> >>
    ELSE <<>>

\* writeBatch throws: a hit without _source in a CSV export
BatchThrows(hits, format) ==
    /\ format = "csv"
    /\ \/ Nullish(Get(hits[1], K_source))
       \/ /\ ObjectKeys(Get(hits[1], K_source)) # <<>>
          /\ \E i \in 1..Len(hits) : Nullish(Get(hits[i], K_source))

\* A variant that writes the JSON placeholder in every format.
NoLogsFoundAsJson(format) ==
    JsonStringify(Obj(<< <<K_message, Str(<<"N", "o", " ", "l", "o", "g", "s", " ", "f", "o", "u", "n", "d">>)>> >>)) \o <<NL>>

NoLogsFound(format) ==
    IF format = "csv" THEN <<"\"", "m", "e", "s", "s", "a", "g", "e", "\"">> \o <<NL>> \o <<"\"", "N", "o", " ", "l", "o", "g", "s", " ", "f", "o", "u", "n", "d", "\"">> \o <<NL>>
    ELSE JsonStringify(Obj(<< <<K_message, Str(<<"N", "o", " ", "l", "o", "g", "s", " ", "f", "o", "u", "n", "d">>)>> >>)) \o <<NL>>

\* The catch block's JSON; the text of error.message is left out.
ExportFailed == JsonStringify(Obj(<< <<K_error, Str(<<"E", "x", "p", "o", "r", "t", " ", "f", "a", "i", "l", "e", "d", ":", " ">>)>> >>))

Min(a, b) == IF a < b THEN a ELSE b

\* A variant with the page size of 1000 as the ceiling.
ExportTooLargeForPage(size) == size > 1000

\* size > appConfig.maxExportSize
ExportTooLarge(size) == size > maxExportSize

PostExport ==
    /\ request # None
    /\ request.route = "export"
    /\ LET mw == ApiAuthMiddleware("/export", request.bearer)
           query == Get(request.body, K_query)
           indexPattern == BodyIndexPattern(request.body)
           size == IF Get(request.body, K_size) = Undefined THEN maxExportSize
                   ELSE Get(request.body, K_size).v
           features == RouteFeatures(mw.user)
           gate == IF mw.status # 0 THEN "unauthorized"
                   ELSE ExportGate(mw.user, features, indexPattern)
           searchBody == Obj(<< <<K_query, EffectiveQuery(features, query, indexPattern)>>,
                                <<K_size, Num(Min(1000, size))>>,
                                <<K_sort, SortSpec>> >>)
       IN  /\ request' = None
           /\ IF gate # "pass"
              THEN /\ response' = GateReply(mw.user, gate)
                   /\ UNCHANGED <<inflight, engineCall>>
              ELSE IF ExportTooLarge(size)
              THEN /\ response' = Reply(mw.user, 400,
                                        Obj(<< <<K_error, Str(<<"M", "a", "x", " ", "e", "x", "p", "o", "r", "t", " ", "s", "i", "z", "e">>)>> >>), FALSE)
                   /\ UNCHANGED <<inflight, engineCall>>
              ELSE /\ engineCall' = EngineCall("search", mw.user, featureToggles,
                                               indexPattern, searchBody)
                   /\ inflight' = [req |-> request, await |-> "export", user |-> mw.user,
                                   features |-> features, size |-> size,
                                   totalExported |-> 0, first |-> TRUE]
                   /\ response' = [req |-> request, user |-> mw.user, status |-> 200,
                                   contentType |-> "application/gzip",
                                   body |-> <<>>, fromCache |-> FALSE, ended |-> FALSE,
                                   batches |-> <<>>, rows |-> <<>>,
                                   events |-> <<"gzip.pipe">>, cursor |-> FALSE,
                                   startRules |-> piiFieldRules, masks |-> <<>>,
                                   columns |-> <<>>]
    /\ UNCHANGED <<extVars, users, userIndexAccess, teamIndexAccess, indexOptions, indexPatternSettings,
                   defaultIndexPattern, piiFieldRules, piiIn, piiOut, guardCall, configResp,
                   featureToggles, responseCache, storedBy, now, metrics, budget>>

\* The catch block: a new gzip stream is created, piped to res, written and ended
CatchEvents == <<"gzip2.pipe", "gzip2.write", "gzip2.end">>

\* What one pass through the export handler does to the gzip stream, the
\* metrics and the engine, in the order of the statements
ExportEvents(first, count, hasHeader, throws, again) ==
    IF first /\ count = 0 THEN <<"gzip.write", "gzip.end", "recordExport">>
    ELSE (IF hasHeader THEN <<"gzip.write">> ELSE <<>>)
         \o (IF throws THEN CatchEvents
             ELSE (IF count > 0 THEN <<"gzip.write">> ELSE <<>>)
                  \o (IF again THEN <<"scroll">>
                      ELSE <<"clear_scroll", "recordExport", "gzip.end">>))

\* The columns of the CSV header line and of the rows of a batch: Object.keys
\* of the _source of the first hit, taken at the header and again in writeBatch
CsvColumns(hits, hasHeader) ==
    (IF hasHeader THEN <<[line |-> "header", cols |-> ObjectKeys(Get(hits[1], K_source))]>>
     ELSE <<>>)
    \o <<[line |-> "rows", cols |-> ObjectKeys(Get(hits[1], K_source))]>>

\* A variant that writes every hit of a scroll batch.
SliceToQuotaWholeBatch(nextHits, size, totalExported) == nextHits

\* nextHits.slice(0, size - totalExported)
SliceToQuota(nextHits, size, totalExported) ==
    SubSeq(nextHits, 1, Min(Len(nextHits), size - totalExported))

\* The batches the engine returns to a request for at most n hits
ExportBatches(n) == {b \in {<<>>, <<HitFlat>>, <<HitNested, HitFlat>>, <<HitBare>>, <<HitOther>>} : Len(b) <= n}

\* The initial search or a scroll returns: one pass through the export loop.
\* response.batches gets the number of hits the engine returned, response.rows
\* the number of rows written for them.
ExportBatchReturns ==
    /\ inflight # None
    /\ inflight.await = "export"
    /\ \E batch \in ExportBatches(Min(1000, inflight.size)) :
        \E format \in {inflight.req.format} :
        \E masked \in {IF inflight.features.piiUnmasked THEN batch
                       ELSE applyPiiRulesToHits(Arr(batch), piiFieldRules).v} :
        \E hits \in {IF inflight.first THEN masked
                     ELSE SliceToQuota(masked, inflight.size, inflight.totalExported)} :
        \E header \in {IF inflight.first /\ format = "csv" /\ Len(hits) > 0
                          /\ ~Nullish(Get(hits[1], K_source))
                       THEN <<CsvHeaderLine(hits)>> ELSE <<>>} :
        \E throws \in {Len(hits) > 0 /\ BatchThrows(hits, format)} :
        \E written \in {IF Len(hits) = 0
                        THEN (IF inflight.first THEN <<NoLogsFound(format)>> ELSE <<>>)
                        ELSE IF throws THEN header \o <<ExportFailed>>
                        ELSE header \o writeBatch(hits, format)} :
        \E totalExported \in {inflight.totalExported + Len(hits)} :
        \E again \in {~throws /\ Len(hits) > 0 /\ totalExported < inflight.size} :
            /\ response' = [response EXCEPT !.body = @ \o written, !.ended = ~again,
                                            !.batches = Append(@, Len(batch)),
                                            !.rows = Append(@, IF throws THEN 0 ELSE Len(hits)),
                                            !.events = @ \o ExportEvents(inflight.first, Len(hits),
                                                                         header # <<>>, throws, again),
                                            !.cursor = TRUE,
                                            !.masks = IF inflight.features.piiUnmasked THEN @
                                                      ELSE Append(@, piiFieldRules),
                                            !.columns = IF format = "csv" /\ Len(hits) > 0 /\ ~throws
                                                        THEN @ \o CsvColumns(hits, header # <<>>)
                                                        ELSE @]
            /\ IF again
               THEN /\ inflight' = [inflight EXCEPT !.totalExported = totalExported,
                                                    !.first = FALSE]
                    /\ engineCall' = [engineCall EXCEPT !.kind = "scroll",
                                        !.body = Obj(<< <<K_scroll, Str(<<"1", "m">>)>>,
                                                        <<K_scroll_id, Str(<<"s">>)>> >>),
                                        !.at = now]
                    /\ UNCHANGED metrics
               ELSE /\ inflight' = None
                    /\ IF throws THEN UNCHANGED <<metrics, engineCall>>
                       ELSE /\ metrics' = recordExport
                            /\ IF inflight.first /\ Len(hits) = 0 THEN UNCHANGED engineCall
                               ELSE engineCall' = [engineCall EXCEPT !.kind = "clear_scroll",
                                        !.body = Obj(<< <<K_scroll_id, Str(<<"s">>)>> >>),
                                        !.at = now]
    /\ UNCHANGED <<extVars, users, userIndexAccess, teamIndexAccess, indexOptions, indexPatternSettings,
                   defaultIndexPattern, piiFieldRules, request, piiIn, piiOut, guardCall,
                   configResp, featureToggles, responseCache, storedBy, now, budget>>

\* A request to the engine fails: the catch block
ExportFails ==
    /\ inflight # None
    /\ inflight.await = "export"
    /\ response' = [response EXCEPT !.body = @ \o <<ExportFailed>>, !.ended = TRUE,
                                    !.events = @ \o CatchEvents]
    /\ inflight' = None
    /\ UNCHANGED <<extVars, users, userIndexAccess, teamIndexAccess, indexOptions, indexPatternSettings,
                   defaultIndexPattern, piiFieldRules, request, piiIn, piiOut, guardCall,
                   configResp, featureToggles, responseCache, storedBy, now, engineCall,
                   metrics, budget>>

(***************************************************************************)
(* POST /api/field-explorer                                                *)
(***************************************************************************)
\* appConfig.fieldExplorerFields and appConfig.fieldExplorerTopN
fieldExplorerFields == Arr(<<Str(PathA)>>)
fieldExplorerTopN == 10

K_start == <<"s", "t", "a", "r", "t">>
K_end == <<"e", "n", "d">>
K_topN == <<"t", "o", "p", "N">>
K_fields == <<"f", "i", "e", "l", "d", "s">>
K_aggs == <<"a", "g", "g", "s">>
K_terms == <<"t", "e", "r", "m", "s">>
K_field == <<"f", "i", "e", "l", "d">>
K_actualField == <<"a", "c", "t", "u", "a", "l", "F", "i", "e", "l", "d">>
K_values == <<"v", "a", "l", "u", "e", "s">>
K_count == <<"c", "o", "u", "n", "t">>
K_aggregations == <<"a", "g", "g", "r", "e", "g", "a", "t", "i", "o", "n", "s">>
K_buckets == <<"b", "u", "c", "k", "e", "t", "s">>
K_key == <<"k", "e", "y">>
K_doc_count == <<"d", "o", "c", "_", "c", "o", "u", "n", "t">>
K_aggregatable == <<"a", "g", "g", "r", "e", "g", "a", "t", "a", "b", "l", "e">>
DotKeyword == <<".", "k", "e", "y", "w", "o", "r", "d">>

\* a || b
OrElse(a, b) == IF Truthy(a) THEN a ELSE b

WordChars ==
    {"a", "b", "c", "d", "e", "f", "g", "h", "i", "j", "k", "l", "m", "n", "o", "p", "q",
     "r", "s", "t", "u", "v", "w", "x", "y", "z",
     "A", "B", "C", "D", "E", "F", "G", "H", "I", "J", "K", "L", "M", "N", "O", "P", "Q",
     "R", "S", "T", "U", "V", "W", "X", "Y", "Z",
     "0", "1", "2", "3", "4", "5", "6", "7", "8", "9", "_"}

sanitizeAggName(name) == [i \in 1..Len(name) |-> IF name[i] \in WordChars THEN name[i] ELSE "_"]

SomeAggregatable(byType) ==
    \E i \in 1..Len(byType.v) : Truthy(Get(byType.v[i][2], K_aggregatable))

\* pickAggregatableField: Null when there is none
pickAggregatableField(baseField, fieldCaps) ==
    LET direct == Get(fieldCaps, baseField)
        keywordField == baseField \o DotKeyword
        keyword == Get(fieldCaps, keywordField)
    IN  IF Truthy(direct) /\ SomeAggregatable(direct) THEN Str(baseField)
        ELSE IF Truthy(keyword) /\ SomeAggregatable(keyword) THEN Str(keywordField)
        ELSE Null

FieldPlan(reqUser, body) ==
    LET indexPattern == OrElse(Get(body, K_indexPattern), Str(defaultIndexPattern)).v
        start == Get(body, K_start)
        end == Get(body, K_end)
        topN == OrElse(Get(body, K_topN), OrElse(Num(fieldExplorerTopN), Num(10)))
        fields == IF Get(body, K_fields).t = "arr" /\ Len(Get(body, K_fields).v) > 0
                  THEN Get(body, K_fields) ELSE fieldExplorerFields
        features == IF authEnabled /\ reqUser # None THEN getUserFeatures(reqUser)
                    ELSE [limitTo7Days |-> FALSE]
    IN  [indexPattern |-> indexPattern, start |-> start, end |-> end, topN |-> topN,
         fields |-> fields, features |-> features,
         cacheKey |-> getCacheKey(<<Str(<<"f", "i", "e", "l", "d", "-", "e", "x", "p", "l", "o", "r", "e", "r">>),
                                    Str(RouteUserKey(reqUser)),
                                    Str(indexPattern),
                                    Str(IF features.limitTo7Days THEN <<"r", "e", "c", "e", "n", "t", "-", "o", "n", "l", "y">>
                                        ELSE <<"a", "l", "l">>),
                                    start, end, topN,
                                    Str(JsonStringify(fields))>>)]

\* fields.slice(0, 30).map((f) => String(f).trim()).filter(Boolean)
FieldList(fields) ==
    LET first == SubSeq(fields.v, 1, Min(30, Len(fields.v)))
        trimmed == [i \in 1..Len(first) |-> Trim(JsToString(first[i]))]
    IN  SelectSeq(trimmed, LAMBDA f : f # <<>>)

EmptyFields == Obj(<< <<K_fields, Arr(<<>>)>> >>)

PostFieldExplorer ==
    /\ request # None
    /\ request.route = "fields"
    /\ LET mw == ApiAuthMiddleware("/field-explorer", request.bearer)
           plan == FieldPlan(mw.user, request.body)
           denied == RouteDenied(mw.user, plan.indexPattern)
           cached == cacheGet(plan.cacheKey)
           fieldList == FieldList(plan.fields)
           fieldsToCheck == FlatMap(fieldList,
                                    [f \in Range(fieldList) |-> <<f, f \o DotKeyword>>])
       IN  /\ request' = None
           /\ IF mw.status # 0
              THEN /\ response' = Reply(None, 401, Unauthorized, FALSE)
                   /\ UNCHANGED <<responseCache, storedBy, inflight, engineCall>>
              ELSE IF denied
              THEN /\ response' = Reply(mw.user, 403, IndexNotAllowed, FALSE)
                   /\ UNCHANGED <<responseCache, storedBy, inflight, engineCall>>
              ELSE /\ responseCache' = cacheAfterGet(plan.cacheKey)
                   /\ storedBy' = Stored(responseCache', storedBy)
                   /\ IF Truthy(cached)
                      THEN /\ response' = Reply(mw.user, 200, cached, TRUE)
                           /\ UNCHANGED <<inflight, engineCall>>
                      ELSE IF Len(plan.fields.v) = 0
                      THEN /\ response' = Reply(mw.user, 200, EmptyFields, FALSE)
                           /\ UNCHANGED <<inflight, engineCall>>
                      ELSE /\ engineCall' = EngineCall("field_caps", mw.user, featureToggles,
                                                       plan.indexPattern,
                                                       Str(Join(fieldsToCheck, <<",">>)))
                           /\ inflight' = [req |-> request, await |-> "field_caps",
                                           user |-> mw.user, plan |-> plan,
                                           toggles |-> featureToggles,
                                           fieldList |-> fieldList]
                           /\ UNCHANGED response
    /\ UNCHANGED <<extVars, users, userIndexAccess, teamIndexAccess, indexOptions, indexPatternSettings,
                   defaultIndexPattern, piiFieldRules, piiIn, piiOut, guardCall, configResp,
                   featureToggles, now, metrics, budget>>

\* the _field_caps answers: none (the request failed), or the caps of the fields
CapsKeyword ==
    Obj(<< <<PathA, Obj(<< <<<<"t", "e", "x", "t">>, Obj(<< <<K_aggregatable, Bool(FALSE)>> >>)>> >>)>>,
           <<PathA \o DotKeyword,
             Obj(<< <<<<"k", "e", "y", "w", "o", "r", "d">>, Obj(<< <<K_aggregatable, Bool(TRUE)>> >>)>> >>)>> >>)
CapsText ==
    Obj(<< <<PathA, Obj(<< <<<<"t", "e", "x", "t">>, Obj(<< <<K_aggregatable, Bool(FALSE)>> >>)>> >>)>> >>)
FieldCaps == {Obj(<<>>), CapsKeyword, CapsText}

\* aggs and aggMap, built field by field
RECURSIVE BuildAggs(_, _, _)
BuildAggs(fieldList, fieldCaps, topN) ==
    IF fieldList = <<>> THEN [aggs |-> Obj(<<>>), aggMap |-> <<>>]
    ELSE LET field == fieldList[Len(fieldList)]
             rest == BuildAggs(SubSeq(fieldList, 1, Len(fieldList) - 1), fieldCaps, topN)
             actualField == IF Len(fieldCaps.v) > 0 THEN pickAggregatableField(field, fieldCaps)
                            ELSE Str(field)
             aggName == sanitizeAggName(field)
             size == Min(IF topN > 1 THEN topN ELSE 1, 50)
         IN  IF ~Truthy(actualField) THEN rest
             ELSE [aggs |-> SpreadSet(rest.aggs, aggName,
                                Obj(<< <<K_terms, Obj(<< <<K_field, actualField>>,
                                                         <<K_size, Num(size)>> >>)>> >>)),
                   aggMap |-> Append(rest.aggMap, [aggName |-> aggName, field |-> field,
                                                   actualField |-> actualField])]

FieldQuery(plan) ==
    LET timeRange == IF Truthy(plan.start) /\ Truthy(plan.end)
                     THEN <<buildTimeRangeFilter(plan.indexPattern, plan.start, plan.end)>>
                     ELSE <<>>
        recent == IF plan.features.limitTo7Days
                  THEN <<buildRecentOnlyFilter(plan.indexPattern)>> ELSE <<>>
    IN  Obj(<< <<K_bool, Obj(<< <<K_filter, Arr(timeRange \o recent)>> >>)>> >>)

\* _field_caps returns (or fails: no caps): the handler builds its aggregations
FieldCapsReturns ==
    /\ inflight # None
    /\ inflight.await = "field_caps"
    /\ \E fieldCaps \in FieldCaps :
        LET plan == inflight.plan
            built == BuildAggs(inflight.fieldList, fieldCaps, plan.topN.v)
        IN  IF built.aggMap = <<>>
            THEN /\ response' = [req |-> inflight.req, user |-> inflight.user, status |-> 200,
                                 body |-> EmptyFields, fromCache |-> FALSE, ended |-> TRUE]
                 /\ inflight' = None
                 /\ UNCHANGED engineCall
            ELSE /\ engineCall' = [kind |-> "search", route |-> "fields",
                                   user |-> inflight.user, toggles |-> inflight.toggles,
                                   indexPattern |-> plan.indexPattern,
                                   body |-> Obj(<< <<K_size, Num(0)>>,
                                                   <<K_query, FieldQuery(plan)>>,
                                                   <<K_aggs, built.aggs>> >>),
                                   at |-> now]
                 /\ inflight' = [inflight EXCEPT !.await = "field_search",
                                                 !.fieldList = built.aggMap]
                 /\ UNCHANGED response
    /\ UNCHANGED <<extVars, users, userIndexAccess, teamIndexAccess, indexOptions, indexPatternSettings,
                   defaultIndexPattern, piiFieldRules, request, piiIn, piiOut, guardCall,
                   configResp, featureToggles, responseCache, storedBy, now, metrics, budget>>

Buckets(values) ==
    Obj(<< <<K_buckets, Arr([i \in 1..Len(values) |->
                                Obj(<< <<K_key, values[i]>>, <<K_doc_count, Num(i)>> >>)])>> >>)
AggData == {Obj(<<>>),
            Obj(<< <<K_aggregations, Obj(<< <<PathA, Buckets(<<Str(<<"p">>), Str(<<"q">>)>>)>> >>)>> >>)}

FieldResult(aggMap, data) ==
    LET aggregations == OrElse(Get(data, K_aggregations), Obj(<<>>))
        buckets(aggName) == OrElse(Get(Get(aggregations, aggName), K_buckets), Arr(<<>>)).v
    IN  Obj(<< <<K_fields, Arr([i \in 1..Len(aggMap) |->
                Obj(<< <<K_field, Str(aggMap[i].field)>>,
                       <<K_actualField, aggMap[i].actualField>>,
                       <<K_values, Arr([j \in 1..Len(buckets(aggMap[i].aggName)) |->
                            Obj(<< <<K_value, Get(buckets(aggMap[i].aggName)[j], K_key)>>,
                                   <<K_count, Get(buckets(aggMap[i].aggName)[j], K_doc_count)>> >>)])>>
                    >>)])>> >>)

FieldSearchReturns ==
    /\ inflight # None
    /\ inflight.await = "field_search"
    /\ \E data \in AggData :
        LET result == FieldResult(inflight.fieldList, data)
        IN  /\ responseCache' = cacheSet(responseCache, inflight.plan.cacheKey, result)
            /\ storedBy' = Stored(responseCache', storedBy)
            /\ response' = [req |-> inflight.req, user |-> inflight.user, status |-> 200,
                            body |-> result, fromCache |-> FALSE, ended |-> TRUE]
    /\ inflight' = None
    /\ UNCHANGED <<extVars, users, userIndexAccess, teamIndexAccess, indexOptions, indexPatternSettings,
                   defaultIndexPattern, piiFieldRules, request, piiIn, piiOut, guardCall,
                   configResp, featureToggles, now, engineCall, metrics, budget>>

FieldSearchFails ==
    /\ inflight # None
    /\ inflight.await = "field_search"
    /\ response' = [req |-> inflight.req, user |-> inflight.user, status |-> 500,
                    body |-> Obj(<< <<K_error, Str(<<"F", "i", "e", "l", "d", " ", "e", "x", "p", "l", "o", "r", "e", "r", " ", "f", "a", "i", "l", "e", "d">>)>> >>),
                    fromCache |-> FALSE, ended |-> TRUE]
    /\ inflight' = None
    /\ UNCHANGED <<extVars, users, userIndexAccess, teamIndexAccess, indexOptions, indexPatternSettings,
                   defaultIndexPattern, piiFieldRules, request, piiIn, piiOut, guardCall,
                   configResp, featureToggles, responseCache, storedBy, now, engineCall,
                   metrics, budget>>

(***************************************************************************)
(* The environment: clients, the administrator, the clock                  *)
(***************************************************************************)
MaxRequests == 2
MaxUpdates == 1
MaxTicks == 1

NoAccess == [n \in Usernames |-> <<>>]
NoTeamAccess == [t \in Teams |-> <<>>]

NoToggles == [t \in Teams |-> None]

\* The state of the request pipeline after start-up, with nothing to come.
\* The cache lifetime is the default one; no function call is recorded.
ExtIdle ==
    /\ CACHE_TTL_MS = DefaultCacheTtlMs
    /\ fnCall = None
    /\ cacheLog = <<>>
    /\ AlertIdle

PipeIdle ==
    /\ ExtIdle
    /\ featureToggles = NoToggles
    /\ responseCache = <<>>
    /\ now = StartMs
    /\ inflight = None
    /\ engineCall = None
    /\ response = None
    /\ storedBy = {}
    /\ metrics = [searches |-> 0, exports |-> 0]
    /\ budget = [routes |-> "search", requests |-> 0, updates |-> 0]

SearchRequests ==
    {[route |-> "search", bearer |-> b, indexPattern |-> idx, body |-> SearchBody(q)] :
        b \in ReqBearers, idx \in ReqIndexes, q \in Queries}

ExportBody(idx, q) == Obj(<< <<K_query, q>>, <<K_indexPattern, Str(idx)>> >>)

EstimateRequests ==
    {[route |-> "estimate", bearer |-> b, body |-> ExportBody(idx, q)] :
        b \in ReqBearers, idx \in ReqIndexes, q \in Queries}

ExportRequests ==
    {[route |-> "export", bearer |-> b, format |-> f, body |-> ExportBody(idx, q)] :
        b \in ReqBearers, idx \in ReqIndexes, q \in Queries, f \in {"json", "csv"}}
    \cup {[route |-> "export", bearer |-> b, format |-> "json",
           body |-> SpreadSet(ExportBody(<<"a">>, MatchAll), K_size, Num(maxExportSize + 1))] :
            b \in ReqBearers}

FieldRequests ==
    {[route |-> "fields", bearer |-> b, body |-> Obj(<< <<K_indexPattern, Str(idx)>> >> \o t)] :
        b \in ReqBearers, idx \in ReqIndexes,
        t \in {<<>>, << <<K_start, Str(<<"1">>)>>, <<K_end, Str(<<"2">>)>> >>}}

Requests == SearchRequests \cup EstimateRequests \cup ExportRequests \cup FieldRequests

\* A client sends a request; its handler runs next.  `response` and
\* `engineCall` start afresh: they are what this request gets and causes.
ClientSends ==
    /\ request = None
    /\ inflight = None
    /\ budget.requests > 0
    /\ request' \in (IF budget.routes = "search" THEN SearchRequests
                     ELSE IF budget.routes = "export" THEN ExportRequests
                     ELSE Requests)
    /\ response' = None
    /\ engineCall' = None
    /\ budget' = [budget EXCEPT !.requests = @ - 1]
    /\ UNCHANGED <<extVars, users, userIndexAccess, teamIndexAccess, indexOptions, indexPatternSettings,
                   defaultIndexPattern, piiFieldRules, piiIn, piiOut, guardCall, configResp,
                   featureToggles, responseCache, now, inflight, storedBy, metrics>>

Limited == [DefaultToggle EXCEPT !.limitTo7Days = TRUE]
Unmasked == [DefaultToggle EXCEPT !.piiUnmasked = TRUE]
NoExports == [DefaultToggle EXCEPT !.exports = FALSE]
TogglePool == {[t1 |-> x, t2 |-> y] : x \in {None, Limited, NoExports}, y \in {None, Unmasked}}

\* app.put('/api/admin/feature-toggles')
PutFeatureToggles ==
    /\ request = None
    /\ budget.updates > 0
    /\ \E next \in TogglePool : featureToggles' = next
    /\ featureToggles' # featureToggles
    /\ budget' = [budget EXCEPT !.updates = @ - 1]
    /\ UNCHANGED <<extVars, users, userIndexAccess, teamIndexAccess, indexOptions, indexPatternSettings,
                   defaultIndexPattern, piiFieldRules, request, piiIn, piiOut, guardCall,
                   configResp, responseCache, now, inflight, engineCall, response, storedBy,
                   metrics>>

RulePool == {<<>>, <<[pattern |-> PathA, action |-> "mask"]>>,
             <<[pattern |-> <<"b", ".", "c">>, action |-> "hide"],
               [pattern |-> <<"*">>, action |-> "partial"]>>}
TeamAccess == {[t1 |-> x, t2 |-> <<>>] : x \in {<<>>, <<<<"b">>>>}}

\* app.put('/api/admin/config') with piiFieldRules in its body
PutPiiFieldRules ==
    /\ request = None
    /\ budget.updates > 0
    /\ piiFieldRules' \in RulePool \ {piiFieldRules}
    /\ budget' = [budget EXCEPT !.updates = @ - 1]
    /\ UNCHANGED <<extVars, users, userIndexAccess, teamIndexAccess, indexOptions, indexPatternSettings,
                   defaultIndexPattern, request, piiIn, piiOut, guardCall, configResp,
                   featureToggles, responseCache, now, inflight, engineCall, response,
                   storedBy, metrics>>

\* app.put('/api/admin/config') with teamIndexAccess in its body
PutTeamIndexAccess ==
    /\ request = None
    /\ budget.updates > 0
    /\ teamIndexAccess' \in TeamAccess \ {teamIndexAccess}
    /\ budget' = [budget EXCEPT !.updates = @ - 1]
    /\ UNCHANGED <<extVars, users, userIndexAccess, indexOptions, indexPatternSettings,
                   defaultIndexPattern, piiFieldRules, request, piiIn, piiOut, guardCall,
                   configResp, featureToggles, responseCache, now, inflight, engineCall,
                   response, storedBy, metrics>>

\* Time passes: the lifetime of a cache entry, or a millisecond more.
Tick ==
    /\ request = None
    /\ now < StartMs + MaxTicks * CACHE_TTL_MS
    /\ \E ms \in {CACHE_TTL_MS, CACHE_TTL_MS + 1} : now' = now + ms
    /\ UNCHANGED <<extVars, users, userIndexAccess, teamIndexAccess, indexOptions, indexPatternSettings,
                   defaultIndexPattern, piiFieldRules, request, piiIn, piiOut, guardCall,
                   configResp, featureToggles, responseCache, inflight, engineCall, response,
                   storedBy, metrics, budget>>

Init ==
    /\ users = UserPool
    /\ userIndexAccess = NoAccess
    /\ teamIndexAccess = NoTeamAccess
    /\ indexOptions = <<>>
    /\ indexPatternSettings = << [pattern |-> <<"a">>, timeField |-> <<"t", "s">>] >>
    /\ defaultIndexPattern = <<"a">>
    /\ piiFieldRules \in RulePool
    /\ request = None
    /\ piiIn = None
    /\ piiOut = None
    /\ guardCall = None
    /\ configResp = None
    /\ featureToggles = NoToggles
    /\ responseCache = <<>>
    /\ now = StartMs
    /\ inflight = None
    /\ engineCall = None
    /\ response = None
    /\ storedBy = {}
    /\ metrics = [searches |-> 0, exports |-> 0]
    /\ budget = [routes |-> "search", requests |-> MaxRequests, updates |-> MaxUpdates]
    /\ ExtIdle

Next ==
    \/ ClientSends
    \/ PostSearch
    \/ SearchReturns
    \/ SearchFails
    \/ PutFeatureToggles
    \/ PutPiiFieldRules
    \/ Tick

Spec == Init /\ [][Next]_vars

(***************************************************************************)
(* SpecRoutes: the four query routes under every configuration of the      *)
(* pools                                                                   *)
(***************************************************************************)
InitRoutes ==
    /\ users = UserPool
    /\ userIndexAccess = NoAccess
    /\ teamIndexAccess = NoTeamAccess
    /\ indexOptions = <<>>
    /\ indexPatternSettings = << [pattern |-> <<"a">>, timeField |-> <<"t", "s">>] >>
    /\ defaultIndexPattern = <<"a">>
    /\ piiFieldRules = <<[pattern |-> PathA, action |-> "mask"]>>
    /\ request = None
    /\ piiIn = None
    /\ piiOut = None
    /\ guardCall = None
    /\ configResp = None
    /\ featureToggles \in TogglePool
    /\ responseCache = <<>>
    /\ now = StartMs
    /\ inflight = None
    /\ engineCall = None
    /\ response = None
    /\ storedBy = {}
    /\ metrics = [searches |-> 0, exports |-> 0]
    /\ budget = [routes |-> "all", requests |-> MaxRequests, updates |-> MaxUpdates]
    /\ ExtIdle

NextRoutes ==
    \/ ClientSends
    \/ PostSearch
    \/ SearchReturns
    \/ SearchFails
    \/ PostExportEstimate
    \/ ExportEstimateReturns
    \/ ExportEstimateFails
    \/ PostExport
    \/ ExportBatchReturns
    \/ ExportFails
    \/ PostFieldExplorer
    \/ FieldCapsReturns
    \/ FieldSearchReturns
    \/ FieldSearchFails
    \/ PutTeamIndexAccess

SpecRoutes == InitRoutes /\ [][NextRoutes]_vars

(***************************************************************************)
(* SpecMatch: isIndexPatternAllowed over every allow pattern and index     *)
(* pattern up to a length                                                  *)
(***************************************************************************)
MaxPatLen == 2
MaxIdxLen == 3

MatchAlphabet == {"a", ".", "*", NL}

LogsStar == <<"l", "o", "g", "s", "-", "*">>
LogsApp == <<"l", "o", "g", "s", "-", "a", "p", "p">>
OtherStar == <<"o", "t", "h", "e", "r", "-", "*">>

\* Allow patterns as normalizeConfig leaves them: trimmed and non-empty.
MatchPatterns ==
    {p \in StringsUpTo(MatchAlphabet, MaxPatLen) : p # <<>> /\ Trim(p) = p}

MatchAllowLists ==
    {<<>>, <<LogsStar>>} \cup {<<p>> : p \in MatchPatterns}
        \cup {<<p, q>> : p \in MatchPatterns, q \in {<<"a">>, <<".", "*">>}}

MatchIndexes == StringsUpTo(MatchAlphabet, MaxIdxLen) \cup {LogsApp, OtherStar}


InitMatch ==
    /\ users = UserPool
    /\ \E allow \in MatchAllowLists : userIndexAccess = [NoAccess EXCEPT !["alice"] = allow]
    /\ teamIndexAccess = NoTeamAccess
    /\ indexOptions = <<>>
    /\ indexPatternSettings = <<>>
    /\ defaultIndexPattern = <<>>
    /\ \E idx \in MatchIndexes :
            request = [route |-> "guard", bearer |-> Alice, indexPattern |-> idx]
    /\ piiFieldRules = <<>>
    /\ piiIn = None
    /\ piiOut = None
    /\ guardCall = None
    /\ configResp = None
    /\ PipeIdle

NextMatch == RouteGuard

SpecMatch == InitMatch /\ [][NextMatch]_vars

(***************************************************************************)
(* SpecGuard: the guard and GET /api/config over configured access lists   *)
(***************************************************************************)
StarA == <<"a", "*">>
JustB == <<"b">>

AccessPool == {<<>>, <<StarA>>, <<JustB>>, <<JustB, StarA>>}
TeamAccessPool == {<<>>, <<StarA>>, <<JustB>>}
GuardIndexes == {<<"a">>, <<"a", "b">>, <<"b">>, <<"c">>}
Bearers == UserPool \cup {None}

InitGuard ==
    /\ users \in {{}, UserPool}
    /\ \E a, b \in AccessPool : userIndexAccess = [NoAccess EXCEPT !["alice"] = a, !["bob"] = b]
    /\ teamIndexAccess \in [Teams -> TeamAccessPool]
    /\ indexOptions = << <<"a", "*", "|", "A">>, <<"b">>, <<"c", "*">> >>
    /\ indexPatternSettings = << [pattern |-> <<"a", "*">>, timeField |-> <<"t", "s">>],
                                 [pattern |-> <<"c", "*">>, timeField |-> <<>>] >>
    /\ defaultIndexPattern = <<"c", "*">>
    /\ \/ \E bearer \in Bearers, idx \in GuardIndexes :
                request = [route |-> "guard", bearer |-> bearer, indexPattern |-> idx]
       \/ \E bearer \in Bearers :
                request = [route |-> "config", bearer |-> bearer, indexPattern |-> <<>>]
    /\ piiFieldRules = <<>>
    /\ piiIn = None
    /\ piiOut = None
    /\ guardCall = None
    /\ configResp = None
    /\ PipeIdle

NextGuard ==
    \/ RouteGuard
    \/ GetApiConfig

SpecGuard == InitGuard /\ [][NextGuard]_vars

\* A wildcard pattern read directly: * stands for any string whatever.
RECURSIVE GlobMatch(_, _)
GlobMatch(p, s) ==
    IF p = <<>> THEN s = <<>>
    ELSE IF p[1] = "*"
         THEN GlobMatch(Tail(p), s) \/ (s # <<>> /\ GlobMatch(p, Tail(s)))
    ELSE s # <<>> /\ s[1] = p[1] /\ GlobMatch(Tail(p), Tail(s))

\* The same with * standing for any string free of line terminators.
RECURSIVE GlobMatchLine(_, _)
GlobMatchLine(p, s) ==
    IF p = <<>> THEN s = <<>>
    ELSE IF p[1] = "*"
         THEN GlobMatchLine(Tail(p), s)
                \/ (s # <<>> /\ s[1] \notin LineTerminators /\ GlobMatchLine(p, Tail(s)))
    ELSE s # <<>> /\ s[1] = p[1] /\ GlobMatchLine(Tail(p), Tail(s))

NonAdminCall ==
    guardCall # None /\ guardCall.user # None /\ guardCall.user.role # "admin"

\* C3 as stated: for a non-admin user isIndexPatternAllowed is true exactly
\* when the allow-list is empty or some allow pattern, metacharacters literal
\* and each * matching ANY string, full-matches the index pattern.
C3_AnyString ==
    NonAdminCall =>
        guardCall.allowed =
            (\/ guardCall.patterns = <<>>
             \/ \E p \in Range(guardCall.patterns) : GlobMatch(p, guardCall.indexPattern))

\* C3 amended: the same with each * matching any string that holds no line
\* terminator; allow-list ["logs-*"] allows "logs-app" and denies "other-*".
C3_Allowed ==
    NonAdminCall =>
        /\ guardCall.allowed =
            (\/ guardCall.patterns = <<>>
             \/ \E p \in Range(guardCall.patterns) : GlobMatchLine(p, guardCall.indexPattern))
        /\ (guardCall.patterns = <<LogsStar>> /\ guardCall.indexPattern = LogsApp
                => guardCall.allowed)
        /\ (guardCall.patterns = <<LogsStar>> /\ guardCall.indexPattern = OtherStar
                => ~guardCall.allowed)

\* A call that the allow-list denies although a * could have covered the index.
C3_Witness ==
    /\ NonAdminCall
    /\ guardCall.patterns = <<LogsStar>>
    /\ guardCall.indexPattern = OtherStar
    /\ ~guardCall.allowed

\* The allow-list the claim resolves for a non-admin user.
ResolvedAllowSet(user) ==
    IF userIndexAccess[user.username] # <<>>
    THEN Range(userIndexAccess[user.username])
    ELSE UNION {Range(teamIndexAccess[t]) : t \in Range(user.teams)}

\* C4: a non-admin user's allow-list is the user's own patterns when there are
\* any (team patterns ignored), else the union of the patterns of all the
\* user's teams; admins and anonymous callers are allowed on every index.
C4_Resolution ==
    guardCall # None =>
        IF guardCall.user = None \/ guardCall.user.role = "admin"
        THEN guardCall.allowed /\ guardCall.status = 200
        ELSE /\ Range(guardCall.patterns) = ResolvedAllowSet(guardCall.user)
             /\ guardCall.allowed =
                    (\/ ResolvedAllowSet(guardCall.user) = {}
                     \/ \E p \in ResolvedAllowSet(guardCall.user) :
                            GlobMatchLine(p, guardCall.indexPattern))

\* Bob has patterns of his own that deny an index one of his teams allows.
C4_Witness ==
    /\ guardCall # None
    /\ guardCall.user = Bob
    /\ userIndexAccess["bob"] = <<JustB>>
    /\ teamIndexAccess["t1"] = <<StarA>>
    /\ guardCall.indexPattern = <<"a">>
    /\ ~guardCall.allowed

\* C6: GET /api/config discloses to a logged-in non-admin caller with a
\* non-empty allow-list only the index options, pattern settings and default
\* pattern that the caller's allow-list matches.
C6_ConfigFiltered ==
    (/\ configResp # None
     /\ authEnabled
     /\ configResp.bearer \in users
     /\ configResp.bearer.role # "admin"
     /\ getAllowedIndexPatterns(configResp.bearer) # <<>>)
    => LET allowed == Range(getAllowedIndexPatterns(configResp.bearer))
           ok(pattern) == \E p \in allowed : GlobMatchLine(p, pattern)
       IN  /\ \A raw \in Range(configResp.indexOptions) : ok(OptionPattern(raw))
           /\ \A entry \in Range(configResp.indexPatternSettings) : ok(entry.pattern)
           /\ configResp.defaultIndexPattern # <<>> => ok(configResp.defaultIndexPattern)

(***************************************************************************)
(* SpecPii: the masking engine applied to rule lists, paths and documents  *)
(***************************************************************************)
CallGetPiiAction ==
    /\ piiIn # None
    /\ piiIn.fn = "getPiiAction"
    /\ piiOut' = [fn |-> "getPiiAction", path |-> piiIn.path,
                  action |-> getPiiAction(piiIn.path, buildPiiMatchers(piiFieldRules))]
    /\ piiIn' = None
    /\ UNCHANGED <<extVars, users, userIndexAccess, teamIndexAccess, indexOptions, indexPatternSettings,
                   defaultIndexPattern, piiFieldRules, request, guardCall, configResp,
                   pipeVars>>

CallApplyPiiRules ==
    /\ piiIn # None
    /\ piiIn.fn = "applyPiiRules"
    /\ piiOut' = [fn |-> "applyPiiRules", value |-> piiIn.value, path |-> piiIn.path,
                  result |-> applyPiiRules(piiIn.value, piiIn.path, buildPiiMatchers(piiFieldRules))]
    /\ piiIn' = None
    /\ UNCHANGED <<extVars, users, userIndexAccess, teamIndexAccess, indexOptions, indexPatternSettings,
                   defaultIndexPattern, piiFieldRules, request, guardCall, configResp,
                   pipeVars>>

CallApplyPiiRulesToHits ==
    /\ piiIn # None
    /\ piiIn.fn = "applyPiiRulesToHits"
    /\ piiOut' = [fn |-> "applyPiiRulesToHits", hits |-> piiIn.hits,
                  result |-> applyPiiRulesToHits(piiIn.hits, piiFieldRules)]
    /\ piiIn' = None
    /\ UNCHANGED <<extVars, users, userIndexAccess, teamIndexAccess, indexOptions, indexPatternSettings,
                   defaultIndexPattern, piiFieldRules, request, guardCall, configResp,
                   pipeVars>>

MaxRules == 2
MaxStrLen == 5

PiiActions == {"hide", "mask", "partial"}

RuleLists(pool, n) ==
    UNION {[1..k -> pool] : k \in 0..n}

PathAB == <<"a", ".", "b">>
PathA0 == <<"a", ".", "0">>
PatAStar == <<"a", ".", "*">>
PatStarB == <<"*", ".", "b">>
PatStar == <<"*">>

\* Rule lists as normalizeConfig leaves them: trimmed non-empty patterns,
\* actions among hide, mask and partial.
ActionRules == [pattern : {PathA, PatAStar, PatStar, PathAB, PathB}, action : PiiActions]
ActionPaths == {<<>>, PathA, PathAB, PathA0, PathB, <<"a", "x", "b">>}

ActionInputs ==
    [rules : RuleLists(ActionRules, MaxRules),
     call : [fn : {"getPiiAction"}, path : ActionPaths]]

PartialRule == [pattern |-> PathA, action |-> "partial"]
MaskRule == [pattern |-> PathA, action |-> "mask"]

PartialValues ==
    {Str(chars) : chars \in StringsUpTo({"x", "y"}, MaxStrLen)}
      \cup {Num(n) : n \in {0, 7, 42, 123, 1234, 12345, -5}}
      \cup {Bool(TRUE), Bool(FALSE), Null}
      \cup {Obj(<<>>), Obj(<< <<PathA, Str(<<"x">>)>> >>), Arr(<<>>), Arr(<<Num(7)>>)}

PartialInputs ==
    [rules : {<<>>, <<PartialRule>>, <<[pattern |-> PatStar, action |-> "partial"]>>,
              <<MaskRule, PartialRule>>},
     call : [fn : {"applyPiiRules"}, value : PartialValues, path : {PathA}]]

Leaves == {Str(<<"p">>), Str(<<"q">>), Null}

ObjsOver(vals) ==
    {Obj(<<>>)} \cup {Obj(<< <<k, v>> >>) : k \in {PathA, PathB}, v \in vals}
        \cup {Obj(<< <<PathA, v>>, <<PathB, w>> >>) : v \in vals, w \in vals}

ArrsOver(vals) ==
    {Arr(<<>>)} \cup {Arr(<<v>>) : v \in vals} \cup {Arr(<<v, w>>) : v \in vals, w \in vals}

Nested == Leaves \cup ObjsOver(Leaves) \cup ArrsOver(Leaves) \cup ArrsOver({Obj(<< <<PathB, Str(<<"q">>)>> >>)})

\* The _source documents: { a: <nested> } and { a: <nested>, b: <leaf> }
Docs ==
    {Obj(<< <<PathA, v>> >>) : v \in Nested}
        \cup {Obj(<< <<PathA, v>>, <<PathB, w>> >>) : v \in Nested, w \in Leaves}



DocRules == [pattern : {PathA, PatAStar, PatStarB, PathA0, PatStar}, action : PiiActions]

DocRuleLists ==
    {<<>>} \cup {<<r>> : r \in DocRules} \cup {<<r, q>> : r \in DocRules, q \in DocRules}

HitsInputs ==
    [rules : DocRuleLists,
     call : {[fn |-> "applyPiiRulesToHits", hits |-> Arr(<<HitOf(doc)>>)] : doc \in Docs}]

InitPii ==
    /\ users = {}
    /\ userIndexAccess = NoAccess
    /\ teamIndexAccess = NoTeamAccess
    /\ indexOptions = <<>>
    /\ indexPatternSettings = <<>>
    /\ defaultIndexPattern = <<>>
    /\ \E inp \in ActionInputs \cup PartialInputs \cup HitsInputs :
            piiFieldRules = inp.rules /\ piiIn = inp.call
    /\ request = None
    /\ piiOut = None
    /\ guardCall = None
    /\ configResp = None
    /\ PipeIdle

NextPii ==
    \/ CallGetPiiAction
    \/ CallApplyPiiRules
    \/ CallApplyPiiRulesToHits

SpecPii == InitPii /\ [][NextPii]_vars

\* The configured rules whose pattern matches a path
MatchingRules(path) ==
    {piiFieldRules[i] : i \in {j \in 1..Len(piiFieldRules) : GlobMatchLine(piiFieldRules[j].pattern, path)}}

\* C7: the action chosen for a path is hide if any matching rule is hide,
\* otherwise mask if any matching rule is mask (before or after a matching
\* partial rule), otherwise partial if any matching rule is partial, otherwise none.
C7_Precedence ==
    (piiOut # None /\ piiOut.fn = "getPiiAction") =>
        LET acts == {r.action : r \in MatchingRules(piiOut.path)}
        IN  piiOut.action = (IF "hide" \in acts THEN "hide"
                             ELSE IF "mask" \in acts THEN "mask"
                             ELSE IF "partial" \in acts THEN "partial"
                             ELSE "none")

\* A mask rule declared after a matching partial rule still wins.
C7_Witness ==
    /\ piiOut # None
    /\ piiOut.fn = "getPiiAction"
    /\ piiFieldRules = <<MaskRule, PartialRule>>
    /\ piiOut.path = PathA
    /\ piiOut.action = "mask"

ActionOf(path) == getPiiAction(path, buildPiiMatchers(piiFieldRules))

\* Whether `out` is `in` with exactly the hide-resolving children left out of
\* every walked container (keys absent, arrays shorter), in the same order.
RECURSIVE Conforms(_, _, _)
Conforms(in, out, path) ==
    IF ActionOf(path) # "none" THEN TRUE
    ELSE IF in.t = "obj"
    THEN LET kept == SelectSeq(in.v, LAMBDA e : ActionOf(ChildPath(path, e[1])) # "hide")
         IN  /\ out.t = "obj"
             /\ Len(out.v) = Len(kept)
             /\ \A i \in 1..Len(kept) :
                    /\ out.v[i][1] = kept[i][1]
                    /\ Conforms(kept[i][2], out.v[i][2], ChildPath(path, kept[i][1]))
    ELSE IF in.t = "arr"
    THEN LET kept == SelectSeq([i \in 1..Len(in.v) |-> i - 1],
                               LAMBDA idx : ActionOf(ChildPath(path, NumToChars(idx))) # "hide")
         IN  /\ out.t = "arr"
             /\ Len(out.v) = Len(kept)
             /\ \A i \in 1..Len(kept) :
                    Conforms(in.v[kept[i] + 1], out.v[i], ChildPath(path, NumToChars(kept[i])))
    ELSE out = in

RECURSIVE StringsIn(_)
StringsIn(value) ==
    IF value.t = "str" THEN {value.v}
    ELSE IF value.t = "arr" THEN UNION {StringsIn(value.v[i]) : i \in 1..Len(value.v)}
    ELSE IF value.t = "obj" THEN UNION {StringsIn(value.v[i][2]) : i \in 1..Len(value.v)}
    ELSE {}

\* The strings at or below the nodes whose path resolves to hide
RECURSIVE HiddenStrings(_, _)
HiddenStrings(value, path) ==
    IF ActionOf(path) = "hide" THEN StringsIn(value)
    ELSE IF ActionOf(path) # "none" THEN {}
    ELSE IF value.t = "arr"
    THEN UNION {HiddenStrings(value.v[i], ChildPath(path, NumToChars(i - 1))) : i \in 1..Len(value.v)}
    ELSE IF value.t = "obj"
    THEN UNION {HiddenStrings(value.v[i][2], ChildPath(path, value.v[i][1])) : i \in 1..Len(value.v)}
    ELSE {}

\* The strings of the nodes that no rule touches on the way down
RECURSIVE PlainStrings(_, _)
PlainStrings(value, path) ==
    IF ActionOf(path) # "none" THEN {}
    ELSE IF value.t = "arr"
    THEN UNION {PlainStrings(value.v[i], ChildPath(path, NumToChars(i - 1))) : i \in 1..Len(value.v)}
    ELSE IF value.t = "obj"
    THEN UNION {PlainStrings(value.v[i][2], ChildPath(path, value.v[i][1])) : i \in 1..Len(value.v)}
    ELSE StringsIn(value)

\* C8: a node whose path resolves to hide is absent from the masked output:
\* its key is not in the parent object (not kept with null), its element is
\* dropped from the parent array, and nothing below it appears in the output.
C8_HiddenAbsent ==
    (piiOut # None /\ piiOut.fn = "applyPiiRulesToHits") =>
        LET doc == Get(piiOut.hits.v[1], K_source)
            out == Get(piiOut.result.v[1], K_source)
        IN  /\ IF ActionOf(<<>>) = "hide" THEN out = Obj(<<>>) ELSE Conforms(doc, out, <<>>)
            /\ StringsIn(out) \cap (HiddenStrings(doc, <<>>) \ PlainStrings(doc, <<>>)) = {}

\* { a: ["p", "q"] } under the rule hide a.0 becomes { a: ["q"] }.
C8_Witness ==
    /\ piiOut # None
    /\ piiOut.fn = "applyPiiRulesToHits"
    /\ piiFieldRules = <<[pattern |-> PathA0, action |-> "hide"]>>
    /\ Get(piiOut.hits.v[1], K_source) = Obj(<< <<PathA, Arr(<<Str(<<"p">>), Str(<<"q">>)>>)>> >>)
    /\ Get(piiOut.result.v[1], K_source) = Obj(<< <<PathA, Arr(<<Str(<<"q">>)>>)>> >>)

\* What the claim gives for a string form: by its length n, "" for 0, n
\* asterisks up to 2, first + *** + last up to 4, else first 2 + *** + last 2.
ByLength(raw) ==
    LET n == Len(raw)
    IN  CASE n = 0 -> <<>>
          [] n \in 1..2 -> [i \in 1..n |-> "*"]
          [] n \in 3..4 -> <<Head(raw), "*", "*", "*", raw[n]>>
          [] OTHER -> <<raw[1], raw[2], "*", "*", "*", raw[n - 1], raw[n]>>

PartialCall ==
    /\ piiOut # None
    /\ piiOut.fn = "applyPiiRules"
    /\ ActionOf(piiOut.path) = "partial"

\* C9 as stated: every scalar under partial, null included, is replaced by
\* the form its string form's length gives; an object or array by "[masked]".
C9_EveryScalar ==
    PartialCall =>
        IF piiOut.value.t \in {"obj", "arr"}
        THEN piiOut.result = Str(MaskedText)
        ELSE piiOut.result = Str(ByLength(JsString(piiOut.value)))

\* C9 amended: the same for every scalar other than null, and null stays null.
C9_Partial ==
    PartialCall =>
        IF piiOut.value.t \in {"obj", "arr"}
        THEN piiOut.result = Str(MaskedText)
        ELSE IF piiOut.value.t = "null"
        THEN piiOut.result = Null
        ELSE piiOut.result = Str(ByLength(JsString(piiOut.value)))

\* The number 12345 under partial becomes "12***45".
C9_Witness ==
    /\ PartialCall
    /\ piiOut.value = Num(12345)
    /\ piiOut.result = Str(<<"1", "2", "*", "*", "*", "4", "5">>)


(***************************************************************************)
(* The request pipeline: cache isolation, the recent-only filter, the      *)
(* index guard, the frame of masking                                       *)
(***************************************************************************)
\* C1: with authentication enabled, a search answered from the ResponseCache
\* is answered with an entry that a caller with the same user id and the same
\* effective piiUnmasked stored: for the same index pattern and body, what one
\* caller stored is never returned to a caller who differs in either.
C1_CacheIsolation ==
    (/\ response # None
     /\ response.fromCache
     /\ response.req.route = "search"
     /\ authEnabled)
    => \A s \in storedBy :
          (/\ s.key = response.key
           /\ s.req.indexPattern = response.req.indexPattern
           /\ s.req.body = response.req.body)
          => /\ s.user.id = response.user.id
             /\ s.features.piiUnmasked = response.features.piiUnmasked

\* A caller's search has missed the cache and gone to the engine while the
\* cache holds a live entry for the same index pattern and body stored by a
\* caller with another user id, or with another effective piiUnmasked.
C1_Witness ==
    /\ inflight # None
    /\ inflight.await = "search"
    /\ \E s \in storedBy :
          /\ s.req.indexPattern = inflight.req.indexPattern
          /\ s.req.body = inflight.req.body
          /\ \/ s.user.id # inflight.user.id
             \/ s.features.piiUnmasked # inflight.features.piiUnmasked
          /\ \E i \in 1..Len(responseCache) :
                responseCache[i].key = s.key /\ now <= responseCache[i].expiresAt

\* The caller's effective limitTo7Days: one of the caller's teams has it set
EffectiveLimit(user, toggles) ==
    \E i \in 1..Len(user.teams) :
        toggles[user.teams[i]] # None /\ toggles[user.teams[i]].limitTo7Days

\* { range: { <field>: { gte: cutoff, ... } } } with no upper bound
RangeFrom(f, cutoff) ==
    /\ f.t = "obj"
    /\ Len(f.v) = 1
    /\ f.v[1][1] = K_range
    /\ f.v[1][2].t = "obj"
    /\ Len(f.v[1][2].v) = 1
    /\ LET bounds == f.v[1][2].v[1][2]
       IN  /\ Get(bounds, K_gte) = Str(cutoff)
           /\ ~HasKey(bounds, K_lte)
           /\ ~HasKey(bounds, <<"l", "t">>)

\* the recent-only filter: such a range, or at least one of several
RecentOnly(f, cutoff) ==
    \/ RangeFrom(f, cutoff)
    \/ /\ f.t = "obj"
       /\ Len(f.v) = 1
       /\ f.v[1][1] = K_bool
       /\ LET b == f.v[1][2]
          IN  /\ Get(b, K_minimum_should_match) = Num(1)
              /\ Get(b, K_should).t = "arr"
              /\ Len(Get(b, K_should).v) > 0
              /\ \A i \in 1..Len(Get(b, K_should).v) : RangeFrom(Get(b, K_should).v[i], cutoff)
              /\ Len(b.v) = 2

QueryFilters(call) == Get(Get(Get(call.body, K_query), K_bool), K_filter)

\* C2: every query sent to the search engine for a caller whose effective
\* limitTo7Days is true has, in its bool.filter, the recent-only range filter
\* with lower bound now - 7 days - 5 minutes and no upper bound.
C2_RecentOnly ==
    (/\ engineCall # None
     /\ engineCall.kind = "search"
     /\ EffectiveLimit(engineCall.user, engineCall.toggles))
    => /\ QueryFilters(engineCall).t = "arr"
       /\ \E i \in 1..Len(QueryFilters(engineCall).v) :
             RecentOnly(QueryFilters(engineCall).v[i],
                        ToISOString(engineCall.at - 7 * 24 * 60 * 60 * 1000 - 5 * 60 * 1000))

\* A limited caller's query that carries a filter of its own went to the engine.
C2_Witness ==
    /\ engineCall # None
    /\ engineCall.kind = "search"
    /\ engineCall.route \in {"export", "fields"}
    /\ EffectiveLimit(engineCall.user, engineCall.toggles)
    /\ QueryFilters(engineCall).t = "arr"
    /\ Len(QueryFilters(engineCall).v) > 1

\* The index pattern a request asks for
RequestIndex(req) ==
    IF req.route = "search" THEN req.indexPattern
    ELSE IF HasKey(req.body, K_indexPattern) THEN Get(req.body, K_indexPattern).v
    ELSE defaultIndexPattern

\* The index guard denies: a non-admin user with a resolved allow-list none of
\* whose patterns matches the index pattern
GuardDenies(req) ==
    /\ authEnabled
    /\ req.bearer \in users
    /\ req.bearer.role # "admin"
    /\ ResolvedAllowSet(req.bearer) # {}
    /\ \A p \in ResolvedAllowSet(req.bearer) : ~GlobMatchLine(p, RequestIndex(req))

\* C5: when the index guard denies the index pattern of a request to one of
\* the four routes, its handler answers 403, not from the cache, and sends
\* nothing to the search engine and records no metric.
C5_DenyShortCircuits ==
    [][(/\ request # None
        /\ request' = None
        /\ request.route \in {"search", "estimate", "export", "fields"}
        /\ GuardDenies(request))
       => /\ response' # None
          /\ response'.req = request
          /\ response'.status = 403
          /\ ~response'.fromCache
          /\ engineCall' = engineCall
          /\ inflight' = inflight
          /\ metrics' = metrics]_vars

\* A search was refused although the cache holds the answer to the very same
\* request, stored before the allow-list changed.
C5_Witness ==
    /\ response # None
    /\ response.status = 403
    /\ response.body = IndexNotAllowed
    /\ engineCall = None
    /\ \E s \in storedBy : s.req = response.req /\ s.user = response.user

\* value with the _source of each hit blanked
BlankSources(value) ==
    LET blank(hit) ==
            IF hit.t = "obj"
            THEN Obj([i \in 1..Len(hit.v) |->
                        IF hit.v[i][1] = K_source THEN <<K_source, Null>> ELSE hit.v[i]])
            ELSE hit
        inHits(h) ==
            IF h.t = "obj"
            THEN Obj([i \in 1..Len(h.v) |->
                        IF h.v[i][1] = K_hits /\ h.v[i][2].t = "arr"
                        THEN <<K_hits, Arr([j \in 1..Len(h.v[i][2].v) |-> blank(h.v[i][2].v[j])])>>
                        ELSE h.v[i]])
            ELSE h
    IN  IF value.t = "obj"
        THEN Obj([i \in 1..Len(value.v) |->
                    IF value.v[i][1] = K_hits THEN <<K_hits, inHits(value.v[i][2])>>
                    ELSE value.v[i]])
        ELSE value

\* C10: the response to a search differs from the engine's only in the
\* _source of hits, and is the engine's response when the caller's effective
\* piiUnmasked is true or no PII rule is configured.
C10_OnlySource ==
    (response # None /\ "data" \in DOMAIN response)
    => /\ BlankSources(response.body) = BlankSources(response.data)
       /\ (response.features.piiUnmasked \/ response.rules = <<>>)
            => response.body = response.data

\* Masking acted on a response whose hits carry an id beside their _source.
C10_Witness ==
    /\ response # None
    /\ "data" \in DOMAIN response
    /\ ~response.features.piiUnmasked
    /\ response.rules # <<>>
    /\ response.body # response.data

\* C26: every entry of the response cache written by the search route for a
\* caller without piiUnmasked holds a response masked with the PII rules
\* that are serialized in the entry's key.
C26_EntryMaskedByKeyRules ==
    \A s \in storedBy : ~s.features.piiUnmasked => s.maskRules = s.keyRules

\* The step answers a search request: `response` gets the answer
AnswersSearch == response' # response /\ response' # None /\ response'.req.route = "search"

\* The count that the alert scheduler reads for the query text of a search
\* request in the current hour
HourlyCountOf(counts, req) ==
    counts[getHourKey(now)][IF extractQueryString(req.body) # <<>>
                            THEN extractQueryString(req.body) ELSE MatchAllText]

\* C29: a step that answers a search request with status 200, from the cache
\* or from the engine, adds one to the day's searches and one to the hourly
\* count of the request's query text; a step that answers a search request
\* with an error changes neither.
C29_CountedOnce ==
    [][AnswersSearch =>
        IF response'.status = 200
        THEN /\ metrics'.searches = metrics.searches + 1
             /\ HourlyCountOf(hourlyQueries', response'.req)
                    = HourlyCountOf(hourlyQueries, response'.req) + 1
        ELSE /\ metrics' = metrics
             /\ hourlyQueries' = hourlyQueries]_vars


(***************************************************************************)
(* SpecRecent: applyRecentOnlyFilterToQuery over a pool of caller queries  *)
(***************************************************************************)
MatchAllEntry == <<K_match_all, Obj(<<>>)>>

\* bool.filter of the caller: absent, null, one clause, or an array of clauses
CallerFilters ==
    {Undefined, Null, TermA, Str(<<"p">>), Arr(<<>>), Arr(<<TermA>>), Arr(<<TermA, MatchAll>>)}

\* the other clauses of the caller's bool
CallerMusts == {Undefined, Arr(<<MatchAll>>)}
CallerShoulds == {Undefined, Arr(<<TermA, MatchAll>>)}

Entry(key, value) == IF value = Undefined THEN <<>> ELSE << <<key, value>> >>

\* { bool: {...} }, with the filter before or after the other clauses and
\* with or without a second key next to bool
BoolQueries ==
    {Obj(before \o << <<K_bool, Obj(IF filterFirst
                                   THEN Entry(K_filter, f) \o Entry(K_must, m) \o Entry(K_should, s)
                                   ELSE Entry(K_must, m) \o Entry(K_should, s) \o Entry(K_filter, f))>> >>
         \o after) :
        f \in CallerFilters, m \in CallerMusts, s \in CallerShoulds, filterFirst \in BOOLEAN,
        before \in {<<>>, <<MatchAllEntry>>}, after \in {<<>>, << <<K_size, Num(1)>> >>}}

\* req.body.query: absent, null, a query without bool, a query with bool
CallerQueries ==
    {Undefined, Null, MatchAll, TermA, Obj(<<>>), Arr(<<TermA>>),
     Obj(<< <<K_bool, Str(<<"p">>)>> >>)} \cup BoolQueries

InitRecent ==
    /\ users = UserPool
    /\ userIndexAccess = NoAccess
    /\ teamIndexAccess = NoTeamAccess
    /\ indexOptions = <<>>
    /\ indexPatternSettings = << [pattern |-> <<"a">>, timeField |-> <<"t", "s">>] >>
    /\ defaultIndexPattern = <<"a">>
    /\ piiFieldRules = <<>>
    /\ request = None
    /\ piiIn = None
    /\ piiOut = None
    /\ guardCall = None
    /\ configResp = None
    /\ PipeIdle

CallApplyRecentOnlyFilterToQuery ==
    /\ \E query \in CallerQueries, indexPattern \in ReqIndexes :
        fnCall' = [fn |-> "applyRecentOnlyFilterToQuery", query |-> query,
                   indexPattern |-> indexPattern,
                   result |-> applyRecentOnlyFilterToQuery(query, indexPattern)]
    /\ UNCHANGED <<users, userIndexAccess, teamIndexAccess, indexOptions, indexPatternSettings,
                   defaultIndexPattern, piiFieldRules, request, piiIn, piiOut, guardCall,
                   configResp, pipeVars, CACHE_TTL_MS, cacheLog, alertVars>>

NextRecent == CallApplyRecentOnlyFilterToQuery

SpecRecent == InitRecent /\ [][NextRecent]_vars

Keys(obj) == [i \in 1..Len(obj.v) |-> obj.v[i][1]]

\* every property of `from` other than `key` is in `to` with the same value
KeepsOthers(from, to, key) ==
    \A i \in 1..Len(from.v) : from.v[i][1] # key => Get(to, from.v[i][1]) = from.v[i][2]

\* `to` has the keys of `from`, and `key`
SameKeysAnd(from, to, key) == Range(Keys(to)) = Range(Keys(from)) \cup {key}

RecentCall == fnCall # None /\ fnCall.fn = "applyRecentOnlyFilterToQuery"

\* C11: applyRecentOnlyFilterToQuery drops no clause of the caller's query.
\* A bool.filter array comes back with the same clauses in the same order and
\* the recent filter after them; a single bool.filter comes back as
\* [original, recent]; a bool without filter keeps its other clauses and gets
\* filter [recent]; these cases keep every other key of the query and of its
\* bool.  A query object without bool comes back unchanged as the one element
\* of bool.must, next to filter [recent]; an absent query gives
\* {bool: {filter: [recent]}}.
C11_KeepsClauses ==
    RecentCall =>
        LET query == fnCall.query
            result == fnCall.result
            recent == buildRecentOnlyFilter(fnCall.indexPattern)
            bool == Get(query, K_bool)
            filter == Get(bool, K_filter)
            nextBool == Get(result, K_bool)
            nextFilter == Get(nextBool, K_filter)
        IN  IF query \in {Undefined, Null}
            THEN result = Obj(<< <<K_bool, Obj(<< <<K_filter, Arr(<<recent>>)>> >>)>> >>)
            ELSE IF bool.t = "obj"
            THEN /\ Keys(result) = Keys(query)
                 /\ KeepsOthers(query, result, K_bool)
                 /\ SameKeysAnd(bool, nextBool, K_filter)
                 /\ KeepsOthers(bool, nextBool, K_filter)
                 /\ nextFilter.t = "arr"
                 /\ IF filter.t = "arr"
                    THEN /\ Len(nextFilter.v) = Len(filter.v) + 1
                         /\ SubSeq(nextFilter.v, 1, Len(filter.v)) = filter.v
                         /\ nextFilter.v[Len(nextFilter.v)] = recent
                    ELSE IF filter \in {Undefined, Null}
                    THEN nextFilter.v = <<recent>>
                    ELSE nextFilter.v = <<filter, recent>>
            ELSE result = Obj(<< <<K_bool, Obj(<< <<K_must, Arr(<<query>>)>>,
                                                 <<K_filter, Arr(<<recent>>)>> >>)>> >>)

\* A query with two filters, a must and a should has been rewritten.
C11_Witness ==
    /\ RecentCall
    /\ Get(Get(fnCall.query, K_bool), K_filter) = Arr(<<TermA, MatchAll>>)
    /\ HasKey(Get(fnCall.query, K_bool), K_must)
    /\ HasKey(Get(fnCall.query, K_bool), K_should)
    /\ Len(Get(Get(fnCall.result, K_bool), K_filter).v) = 3


(***************************************************************************)
(* SpecFeatures: normalizeFeatureToggles and getUserFeatures               *)
(***************************************************************************)
Flags == {"exports", "bookmarks", "rules", "queryBuilder", "limitTo7Days", "piiUnmasked",
          "showFullResults"}

\* toggles && typeof toggles === 'object'
IsToggleObject(toggles) == "exports" \in DOMAIN toggles

\* normalizeFeatureToggles(data).teams, for data.teams = teams
normalizeFeatureToggles(teams) ==
    [team \in DOMAIN teams |->
        IF teams[team] = None THEN None
        ELSE LET value == IF IsToggleObject(teams[team]) THEN teams[team]
                          ELSE [f \in Flags |-> Undefined]
             IN  [exports |-> value.exports # Bool(FALSE),
                  bookmarks |-> value.bookmarks # Bool(FALSE),
                  rules |-> value.rules # Bool(FALSE),
                  queryBuilder |-> value.queryBuilder # Bool(FALSE),
                  limitTo7Days |-> value.limitTo7Days = Bool(TRUE),
                  piiUnmasked |-> value.piiUnmasked = Bool(TRUE),
                  showFullResults |-> value.showFullResults = Bool(TRUE)]]

\* What a client may send for one flag, and for one team: no entry, something
\* that is not an object, or an object of flags
RawFlags == {Undefined, Bool(TRUE), Bool(FALSE)}
RawToggles ==
    {None, Bool(TRUE)} \cup
    {[exports |-> e, bookmarks |-> o, rules |-> o, queryBuilder |-> o, limitTo7Days |-> l,
      piiUnmasked |-> l, showFullResults |-> o] : e \in RawFlags, l \in RawFlags, o \in RawFlags}
ToggleBodies == [Teams -> RawToggles]

\* app.put('/api/admin/feature-toggles') with the body { teams }
PutFeatureTogglesBody ==
    /\ budget.updates > 0
    /\ \E teams \in ToggleBodies : featureToggles' = normalizeFeatureToggles(teams)
    /\ budget' = [budget EXCEPT !.updates = @ - 1]
    /\ UNCHANGED <<extVars, users, userIndexAccess, teamIndexAccess, indexOptions,
                   indexPatternSettings, defaultIndexPattern, piiFieldRules, request, piiIn,
                   piiOut, guardCall, configResp, responseCache, now, inflight, engineCall,
                   response, storedBy, metrics>>

\* getUserFeatures(req.user): req.user is a configured user, or undefined
CallGetUserFeatures ==
    /\ \E user \in users \cup {None} :
        fnCall' = [fn |-> "getUserFeatures", user |-> user, auth |-> authEnabled,
                   toggles |-> featureToggles, result |-> getUserFeatures(user)]
    /\ UNCHANGED <<users, userIndexAccess, teamIndexAccess, indexOptions, indexPatternSettings,
                   defaultIndexPattern, piiFieldRules, request, piiIn, piiOut, guardCall,
                   configResp, pipeVars, CACHE_TTL_MS, cacheLog, alertVars>>

InitFeatures ==
    /\ users \in {UserPool, {}}
    /\ userIndexAccess = NoAccess
    /\ teamIndexAccess = NoTeamAccess
    /\ indexOptions = <<>>
    /\ indexPatternSettings = <<>>
    /\ defaultIndexPattern = <<"a">>
    /\ piiFieldRules = <<>>
    /\ request = None
    /\ piiIn = None
    /\ piiOut = None
    /\ guardCall = None
    /\ configResp = None
    /\ featureToggles = NoToggles
    /\ responseCache = <<>>
    /\ now = StartMs
    /\ inflight = None
    /\ engineCall = None
    /\ response = None
    /\ storedBy = {}
    /\ metrics = [searches |-> 0, exports |-> 0]
    /\ budget = [routes |-> "none", requests |-> 0, updates |-> MaxUpdates]
    /\ ExtIdle

NextFeatures == PutFeatureTogglesBody \/ CallGetUserFeatures

SpecFeatures == InitFeatures /\ [][NextFeatures]_vars

FeaturesCall == fnCall # None /\ fnCall.fn = "getUserFeatures"

\* the toggle of one team: what is configured for it, and for a team without
\* configuration everything but limitTo7Days, piiUnmasked and showFullResults
TeamHas(toggles, team, flag) ==
    IF toggles[team] # None THEN toggles[team][flag]
    ELSE flag \in {"exports", "bookmarks", "rules", "queryBuilder"}

\* C12: with authentication enabled, each flag of a user's effective feature
\* set is true exactly when one of the user's teams has that toggle true.
C12_AnyTeamGrants ==
    (FeaturesCall /\ fnCall.auth /\ fnCall.user # None) =>
        \A flag \in Flags :
            fnCall.result[flag] <=>
                \E i \in 1..Len(fnCall.user.teams) :
                    TeamHas(fnCall.toggles, fnCall.user.teams[i], flag)

\* A user of two teams: one team alone grants exports, the other alone
\* imposes limitTo7Days.
C12_Witness ==
    /\ FeaturesCall
    /\ fnCall.auth
    /\ fnCall.user = Bob
    /\ fnCall.toggles["t1"] # None
    /\ fnCall.toggles["t2"] # None
    /\ fnCall.toggles["t1"].exports
    /\ ~fnCall.toggles["t2"].exports
    /\ ~fnCall.toggles["t1"].limitTo7Days
    /\ fnCall.toggles["t2"].limitTo7Days
    /\ fnCall.result.exports
    /\ fnCall.result.limitTo7Days

\* C13: an admin, and any caller when authentication is disabled, gets
\* exports, bookmarks, rules and queryBuilder and no limitTo7Days, whatever
\* is configured for the caller's teams.
C13_AllPermissive ==
    (FeaturesCall /\ (~fnCall.auth \/ (fnCall.user # None /\ fnCall.user.role = "admin"))) =>
        /\ fnCall.result.exports
        /\ fnCall.result.bookmarks
        /\ fnCall.result.rules
        /\ fnCall.result.queryBuilder
        /\ ~fnCall.result.limitTo7Days


(***************************************************************************)
(* SpecCache: sequences of cacheGet and cacheSet calls as time passes      *)
(***************************************************************************)
MaxCacheCalls == 4

CacheKeys == {<<"k", "1">>, <<"k", "2">>, <<"k", "3">>}
CacheValues == {Str(<<"v">>), Str(<<"w">>)}

CacheKeysOf(cache) == [i \in 1..Len(cache) |-> cache[i].key]

CallCacheGet ==
    /\ budget.requests > 0
    /\ \E key \in CacheKeys :
        /\ fnCall' = [fn |-> "cacheGet", key |-> key, at |-> now, before |-> responseCache,
                      log |-> cacheLog, after |-> cacheAfterGet(key), result |-> cacheGet(key)]
        /\ responseCache' = cacheAfterGet(key)
    /\ budget' = [budget EXCEPT !.requests = @ - 1]
    /\ UNCHANGED <<users, userIndexAccess, teamIndexAccess, indexOptions, indexPatternSettings,
                   defaultIndexPattern, piiFieldRules, request, piiIn, piiOut, guardCall,
                   configResp, featureToggles, now, inflight, engineCall, response, storedBy,
                   metrics, CACHE_TTL_MS, cacheLog, alertVars>>

\* cacheLog gets the key when responseCache.set(key, ...) adds it to the Map
CallCacheSet ==
    /\ budget.requests > 0
    /\ \E key \in CacheKeys, value \in CacheValues :
        /\ responseCache' = cacheSet(responseCache, key, value)
        /\ fnCall' = [fn |-> "cacheSet", key |-> key, value |-> value, at |-> now,
                      before |-> responseCache, log |-> cacheLog, after |-> responseCache']
        /\ cacheLog' = IF CACHE_TTL_MS # 0 /\ key \notin Range(CacheKeysOf(responseCache))
                       THEN Append(cacheLog, key) ELSE cacheLog
    /\ budget' = [budget EXCEPT !.requests = @ - 1]
    /\ UNCHANGED <<users, userIndexAccess, teamIndexAccess, indexOptions, indexPatternSettings,
                   defaultIndexPattern, piiFieldRules, request, piiIn, piiOut, guardCall,
                   configResp, featureToggles, now, inflight, engineCall, response, storedBy,
                   metrics, CACHE_TTL_MS, alertVars>>

InitCache ==
    /\ users = UserPool
    /\ userIndexAccess = NoAccess
    /\ teamIndexAccess = NoTeamAccess
    /\ indexOptions = <<>>
    /\ indexPatternSettings = <<>>
    /\ defaultIndexPattern = <<"a">>
    /\ piiFieldRules = <<>>
    /\ request = None
    /\ piiIn = None
    /\ piiOut = None
    /\ guardCall = None
    /\ configResp = None
    /\ featureToggles = NoToggles
    /\ responseCache = <<>>
    /\ now = StartMs
    /\ inflight = None
    /\ engineCall = None
    /\ response = None
    /\ storedBy = {}
    /\ metrics = [searches |-> 0, exports |-> 0]
    /\ budget = [routes |-> "none", requests |-> MaxCacheCalls, updates |-> 0]
    /\ CACHE_TTL_MS \in {0, DefaultCacheTtlMs}
    /\ fnCall = None
    /\ cacheLog = <<>>
    /\ AlertIdle

NextCache == CallCacheGet \/ CallCacheSet \/ Tick

SpecCache == InitCache /\ [][NextCache]_vars

GetCall == fnCall # None /\ fnCall.fn = "cacheGet"
SetCall == fnCall # None /\ fnCall.fn = "cacheSet"

\* the entries of `cache` under `key`: one or none
EntriesOf(cache, key) == SelectSeq(cache, LAMBDA e : e.key = key)

\* C14: cacheGet returns the stored value only while the time is not after
\* the entry's expiresAt, which cacheSet sets to the time of the set plus the
\* TTL; a get after that is a miss and removes the entry; with a TTL of 0
\* every get is a miss and every set leaves the cache unchanged.
C14_Expiry ==
    /\ GetCall =>
        LET found == EntriesOf(fnCall.before, fnCall.key)
        IN  IF CACHE_TTL_MS = 0 \/ found = <<>>
            THEN fnCall.result = Null /\ fnCall.after = fnCall.before
            ELSE IF fnCall.at <= found[1].expiresAt
            THEN fnCall.result = found[1].value /\ fnCall.after = fnCall.before
            ELSE /\ fnCall.result = Null
                 /\ fnCall.after = SelectSeq(fnCall.before, LAMBDA e : e.key # fnCall.key)
    /\ SetCall =>
        IF CACHE_TTL_MS = 0 THEN fnCall.after = fnCall.before
        ELSE LET found == EntriesOf(fnCall.after, fnCall.key)
             IN  /\ Len(found) = 1
                 /\ found[1].value = fnCall.value
                 /\ found[1].expiresAt = fnCall.at + CACHE_TTL_MS

\* A get after the expiry of its entry has removed it.
C14_Witness ==
    /\ GetCall
    /\ fnCall.result = Null
    /\ Len(fnCall.after) < Len(fnCall.before)

\* the position of the last insertion of key in the log
LastInserted(log, key) ==
    IF key \in Range(log) THEN CHOOSE i \in 1..Len(log) :
                                /\ log[i] = key
                                /\ \A j \in (i + 1)..Len(log) : log[j] # key
    ELSE 0

\* the key of `cache` that was inserted before all the others in it
Oldest(cache, log) ==
    CHOOSE k \in Range(CacheKeysOf(cache)) :
        \A other \in Range(CacheKeysOf(cache)) : LastInserted(log, k) <= LastInserted(log, other)

\* C15: the cache never holds more than CACHE_MAX_ENTRIES entries; a set of
\* a new key into a full cache removes one entry, the one inserted earliest
\* among those present, whatever was read or overwritten since; any other
\* set removes nothing.
C15_Bounded ==
    /\ Len(responseCache) <= CACHE_MAX_ENTRIES
    /\ (SetCall /\ CACHE_TTL_MS # 0) =>
        LET before == Range(CacheKeysOf(fnCall.before))
            after == Range(CacheKeysOf(fnCall.after))
        IN  IF fnCall.key \in before THEN after = before
            ELSE IF Len(fnCall.before) = CACHE_MAX_ENTRIES
            THEN after = (before \ {Oldest(fnCall.before, fnCall.log)}) \cup {fnCall.key}
            ELSE after = before \cup {fnCall.key}

\* A set has evicted the entry inserted first, although that entry was
\* overwritten after the other one was inserted.
C15_Witness ==
    /\ SetCall
    /\ Len(fnCall.before) = CACHE_MAX_ENTRIES
    /\ fnCall.key \notin Range(CacheKeysOf(fnCall.before))
    /\ fnCall.before[1].expiresAt > fnCall.before[2].expiresAt
    /\ fnCall.before[1].key \notin Range(CacheKeysOf(fnCall.after))
    /\ fnCall.before[2].key \in Range(CacheKeysOf(fnCall.after))


(***************************************************************************)
(* Claims about POST /api/export/:format                                   *)
(***************************************************************************)
\* the size of an export request: req.body.size, by default maxExportSize
RequestedSize(req) ==
    IF HasKey(req.body, K_size) THEN Get(req.body, K_size).v ELSE maxExportSize

\* The route's checks before the size check let the request through.
Admitted(req) ==
    \/ ~authEnabled
    \/ /\ req.bearer \in users
       /\ \E i \in 1..Len(req.bearer.teams) :
            TeamHas(featureToggles, req.bearer.teams[i], "exports")
       /\ ~GuardDenies(req)

\* C16: the handler of an export request whose size is greater than
\* maxExportSize sends nothing to the search engine, starts no gzip download
\* and records no metric; it answers 400 (the request being one that the
\* route's authentication, feature and index checks, which come first, let
\* through: otherwise their 401 or 403).
C16_SizeCeiling ==
    [][(/\ request # None
        /\ request' = None
        /\ request.route = "export"
        /\ RequestedSize(request) > maxExportSize)
       => /\ response' # None
          /\ response'.req = request
          /\ response'.status = (IF Admitted(request) THEN 400
                                 ELSE IF request.bearer \in users THEN 403 ELSE 401)
          /\ response'.ended
          /\ "contentType" \notin DOMAIN response'
          /\ engineCall' = engineCall
          /\ engineCall = None
          /\ inflight' = None
          /\ metrics' = metrics]_vars

\* An export of more than maxExportSize records was answered 400.
C16_Witness ==
    /\ response # None
    /\ response.req.route = "export"
    /\ RequestedSize(response.req) > maxExportSize
    /\ response.status = 400
    /\ engineCall = None
    /\ inflight = None

IsDownload(resp) == resp # None /\ "contentType" \in DOMAIN resp

Placeholder(format) ==
    IF format = "csv" THEN <<"\"", "m", "e", "s", "s", "a", "g", "e", "\"">> \o <<NL>> \o <<"\"", "N", "o", " ", "l", "o", "g", "s", " ", "f", "o", "u", "n", "d", "\"">> \o <<NL>>
    ELSE <<"{", "\"", "m", "e", "s", "s", "a", "g", "e", "\"", ":", "\"", "N", "o", " ", "l", "o", "g", "s", " ", "f", "o", "u", "n", "d", "\"", "}">> \o <<NL>>

\* C17: when the first batch of an export has no hits, the handler writes
\* the one placeholder row of the format and nothing else, ends the stream,
\* sends no scroll request, does not take the failure path and records one
\* export.
C17_EmptyExport ==
    [][(/\ IsDownload(response)
        /\ response.batches = <<>>
        /\ IsDownload(response')
        /\ response'.batches = <<0>>)
       => /\ response'.body = <<Placeholder(response.req.format)>>
          /\ response'.rows = <<0>>
          /\ response'.ended
          /\ response'.status = 200
          /\ inflight' = None
          /\ engineCall' = engineCall
          /\ metrics'.exports = metrics.exports + 1
          /\ metrics'.searches = metrics.searches]_vars

\* A CSV export has ended with the placeholder row.
C17_Witness ==
    /\ IsDownload(response)
    /\ response.req.format = "csv"
    /\ response.batches = <<0>>
    /\ response.ended
    /\ Len(response.body) = 1
    /\ metrics.exports > 0

RECURSIVE SumSeq(_)
SumSeq(seq) == IF seq = <<>> THEN 0 ELSE Head(seq) + SumSeq(Tail(seq))

\* C20: in every export the number of rows written so far is at most the
\* requested size; the first page is asked for with size min(1000, size);
\* of a later batch only as many rows are written as the size leaves; and
\* another batch is fetched only after a batch that was not empty and left
\* the total below the size.
C20_RowsWithinSize ==
    IsDownload(response) =>
        LET size == RequestedSize(response.req)
            rows == response.rows
            batches == response.batches
            done(i) == SumSeq(SubSeq(rows, 1, i))
            writeFailed == Len(rows) > 0 /\ rows[Len(rows)] = 0 /\ batches[Len(rows)] > 0
        IN  /\ SumSeq(rows) <= size
            /\ Len(rows) = Len(batches)
            /\ (engineCall # None /\ engineCall.kind = "search")
                 => Get(engineCall.body, K_size) = Num(IF size < 1000 THEN size ELSE 1000)
            /\ \A i \in 1..Len(rows) :
                 \/ i = Len(rows) /\ writeFailed
                 \/ rows[i] = (IF i = 1 \/ batches[i] <= size - done(i - 1) THEN batches[i]
                               ELSE size - done(i - 1))
            /\ \A i \in 1..(Len(rows) - 1) : rows[i] > 0 /\ done(i) < size
            /\ (inflight # None /\ Len(rows) > 0)
                 => (rows[Len(rows)] > 0 /\ SumSeq(rows) < size)
            /\ (inflight = None /\ Len(rows) > 0) => response.ended

\* A scroll batch larger than what the size left was cut before it was
\* written, and the export ended with exactly `size` rows.
C20_Witness ==
    /\ IsDownload(response)
    /\ Len(response.rows) = 2
    /\ response.batches[2] > response.rows[2]
    /\ response.rows[2] > 0
    /\ SumSeq(response.rows) = RequestedSize(response.req)
    /\ response.ended

(***************************************************************************)
(* The alert scheduler: getQueryCountSince, sendAlertEmail, runRuleChecks   *)
(***************************************************************************)
MaxCount == 2

AlertPeriodMs == 5 * 60 * 1000

\* The decimal number written by a string of digits
RECURSIVE CharsToNum(_)
CharsToNum(chars) ==
    IF chars = <<>> THEN 0
    ELSE CharsToNum(SubSeq(chars, 1, Len(chars) - 1)) * 10
         + (IndexOf(DigitChars, chars[Len(chars)]) - 1)

\* new Date(iso).getTime() for iso written by toISOString: YYYY-MM-DDTHH:MM:SS.mmmZ
DateParse(iso) ==
    LET year == CharsToNum(SubSeq(iso, 1, 4))
        month == CharsToNum(SubSeq(iso, 6, 7))
        day == CharsToNum(SubSeq(iso, 9, 10))
        y == IF month <= 2 THEN year - 1 ELSE year
        era == y \div 400
        yoe == y - era * 400
        doy == (153 * (IF month > 2 THEN month - 3 ELSE month + 9) + 2) \div 5 + day - 1
        doe == yoe * 365 + yoe \div 4 - yoe \div 100 + doy
        days == era * 146097 + doe - 719468
    IN  days * 86400000
        + CharsToNum(SubSeq(iso, 12, 13)) * HourMs
        + CharsToNum(SubSeq(iso, 15, 16)) * 60000
        + CharsToNum(SubSeq(iso, 18, 19)) * 1000
        + CharsToNum(SubSeq(iso, 21, 23))

\* getQueryCountSince(query, windowMinutes) called when Date.now() is clock:
\* the sum of the query's counts in the ceil(windowMinutes / 60) hours that
\* end with the current one
getQueryCountSince(query, windowMinutes, clock) ==
    LET buckets == (windowMinutes + 59) \div 60
        hourStart == clock - (clock % HourMs)
        key(i) == getHourKey(hourStart - i * HourMs)
        bucketCount(i) == IF key(i) \in DOMAIN hourlyQueries /\ query \in DOMAIN hourlyQueries[key(i)]
                          THEN hourlyQueries[key(i)][query] ELSE 0
    IN  SumSeq([j \in 1..buckets |-> bucketCount(j - 1)])

withinWindowInclusive(last, at, windowMinutes) ==
    last # <<>> /\ at - DateParse(last) <= windowMinutes * 60 * 1000

\* withinWindow in runRuleChecks: the rule triggered less than windowMinutes ago
withinWindow(last, at, windowMinutes) ==
    last # <<>> /\ at - DateParse(last) < windowMinutes * 60 * 1000

\* sendAlertEmail up to its await: FALSE when it returns false without sending
\* because host, to or from is empty; TRUE when it goes on to transport.sendMail
sendAlertEmailSends(email) ==
    LET to == IF email # <<>> THEN email ELSE smtp.to
    IN  ~(smtp.host = <<>> \/ to = <<>> \/ smtp.from = <<>>)

\* The loop of runRuleChecks from the i-th rule on, for the run that started at
\* time at, up to its end or to the next await of transport.sendMail.  The
\* result has the position reached, rulesState.lastTriggeredAt, the log of the
\* evaluations and whether the run is suspended at position i.
RECURSIVE RunRules(_, _, _, _, _, _)
RunRules(list, i, at, clock, triggered, log) ==
    IF i > Len(list)
    THEN [i |-> i, lastTriggeredAt |-> triggered, evalLog |-> log, pending |-> FALSE]
    ELSE LET rule == list[i]
             query == Trim(rule.query)
             threshold == rule.threshold
             windowMinutes == IF rule.windowMinutes # 0 THEN rule.windowMinutes ELSE 60
             email == Trim(rule.email)
         IN  IF query = <<>> \/ threshold < 1
             THEN RunRules(list, i + 1, at, clock, triggered, log)
             ELSE LET count == getQueryCountSince(query, windowMinutes, clock)
                      last == triggered[rule.id]
                      fires == count > threshold /\ ~withinWindow(last, at, windowMinutes)
                      sends == fires /\ sendAlertEmailSends(email)
                      entry == [id |-> rule.id, at |-> at, count |-> count,
                                threshold |-> threshold, windowMinutes |-> windowMinutes,
                                prevSent |-> lastSentAt[rule.id], dispatched |-> sends,
                                outcome |-> IF sends THEN "pending" ELSE "none"]
                  IN  IF ~fires
                      THEN RunRules(list, i + 1, at, clock, triggered, Append(log, entry))
                      ELSE IF ~sends
                      THEN RunRules(list, i + 1, at, clock,
                                    [triggered EXCEPT ![rule.id] = ToISOString(at)],
                                    Append(log, entry))
                      ELSE [i |-> i, lastTriggeredAt |-> triggered,
                            evalLog |-> Append(log, entry), pending |-> TRUE]

\* The log with the outcome of the send that a run was awaiting: the send is
\* the one of the run's evaluation of the rule
Settled(log, at, id, outcome) ==
    [k \in 1..Len(log) |->
        IF log[k].at = at /\ log[k].id = id /\ log[k].outcome = "pending"
        THEN [log[k] EXCEPT !.outcome = outcome] ELSE log[k]]

\* A variant in which a rejected send ends the run.
AfterCatchAbort(i) == Len(alertRules) + 1

\* After the catch block the for loop goes on with the next rule
AfterCatch(i) == i + 1

AlertFrame ==
    UNCHANGED <<users, userIndexAccess, teamIndexAccess, indexOptions, indexPatternSettings,
                defaultIndexPattern, piiFieldRules, request, piiIn, piiOut, guardCall,
                configResp, featureToggles, responseCache, inflight, engineCall, response,
                storedBy, metrics, budget, CACHE_TTL_MS, fnCall, cacheLog>>

MaxPendingRuns == 2

MaxOverlapTicks == 4

\* Five minutes pass and the timer calls runRuleChecks, which runs up to its
\* first await of transport.sendMail.  The log keeps the evaluations of the
\* run before this one.
TimerRun ==
    /\ now < StartMs + MaxAlertTicks * AlertPeriodMs
    /\ now' = now + AlertPeriodMs
    /\ \E res \in {RunRules(alertRules, 1, now + AlertPeriodMs, now + AlertPeriodMs,
                            lastTriggeredAt, SelectSeq(evalLog, LAMBDA e : e.at = now))} :
        /\ lastTriggeredAt' = res.lastTriggeredAt
        /\ evalLog' = res.evalLog
        /\ alertRuns' = IF res.pending
                        THEN Append(alertRuns, [at |-> now + AlertPeriodMs, i |-> res.i])
                        ELSE alertRuns
    /\ UNCHANGED <<alertRules, hourlyQueries, smtp, lastSentAt>>
    /\ AlertFrame

\* setInterval(runRuleChecks, 5 * 60 * 1000), when every send of the runs
\* before has settled
TimerFires ==
    /\ alertRuns = <<>>
    /\ TimerRun

\* setInterval(runRuleChecks, 5 * 60 * 1000), when a run before is still at
\* its await of transport.sendMail: the timer does not wait for it
TimerFiresDuringSend ==
    /\ alertRuns # <<>>
    /\ Len(alertRuns) < MaxPendingRuns
    /\ now < StartMs + MaxOverlapTicks * AlertPeriodMs
    /\ TimerRun

\* The suspended runs after the k-th went on: up to its next await, or to its end
RunsAfter(k, res) ==
    IF res.pending THEN [alertRuns EXCEPT ![k].i = res.i] ELSE RemoveAt(alertRuns, k)

\* transport.sendMail of a suspended run resolves:
\* lastTriggeredAt[rule.id] = now.toISOString(), with the now of that run, and
\* the loop goes on with the next rule
SendResolves ==
    /\ \E k \in 1..Len(alertRuns) :
       \E run \in {alertRuns[k]} :
       \E id \in {alertRules[run.i].id} :
       \E res \in {RunRules(alertRules, run.i + 1, run.at, now,
                            [lastTriggeredAt EXCEPT ![id] = ToISOString(run.at)],
                            Settled(evalLog, run.at, id, "sent"))} :
        /\ lastTriggeredAt' = res.lastTriggeredAt
        /\ evalLog' = res.evalLog
        /\ alertRuns' = RunsAfter(k, res)
        /\ lastSentAt' = [lastSentAt EXCEPT ![id] = run.at]
    /\ UNCHANGED <<alertRules, hourlyQueries, smtp, now>>
    /\ AlertFrame

\* transport.sendMail of a suspended run rejects: the catch logs the error,
\* and the loop goes on with the next rule
SendRejects ==
    /\ \E k \in 1..Len(alertRuns) :
       \E run \in {alertRuns[k]} :
       \E res \in {RunRules(alertRules, AfterCatch(run.i), run.at, now, lastTriggeredAt,
                            Settled(evalLog, run.at, alertRules[run.i].id, "rejected"))} :
        /\ lastTriggeredAt' = res.lastTriggeredAt
        /\ evalLog' = res.evalLog
        /\ alertRuns' = RunsAfter(k, res)
    /\ UNCHANGED <<alertRules, hourlyQueries, smtp, now, lastSentAt>>
    /\ AlertFrame

\* recordSearch: metrics.hourlyQueries[hourKey][q] += 1 for the query of a search
RecordHourlyQuery ==
    /\ \E q \in AlertQueries :
        /\ hourlyQueries[getHourKey(now)][q] < MaxCount
        /\ hourlyQueries' = [hourlyQueries EXCEPT ![getHourKey(now)][q] = @ + 1]
    /\ UNCHANGED <<alertRules, lastTriggeredAt, smtp, alertRuns, evalLog, lastSentAt, now>>
    /\ AlertFrame

\* A rule as normalizeRules stores it: the query trimmed and not empty, the
\* threshold and the window numbers, the e-mail address <<>> when undefined
AlertRule(id, query, threshold, windowMinutes, email) ==
    [id |-> id, query |-> query, threshold |-> threshold, windowMinutes |-> windowMinutes,
     email |-> email]

R1 == AlertRule("r1", <<"e", "r", "r", "o", "r">>, 1, 60, <<>>)
R2 == AlertRule("r2", <<"e", "r", "r", "o", "r">>, 1, 10, <<"a", "@", "b">>)
R3 == AlertRule("r3", <<"e", "r", "r", "o", "r">>, 0, 60, <<>>)

AlertRuleLists == {<<R1>>, <<R2, R1>>, <<R3, R2>>}

SmtpPool ==
    {[host |-> <<"m", "x">>, to |-> <<"o", "@", "b">>, from |-> <<"l", "@", "b">>],
     [host |-> <<"m", "x">>, to |-> <<>>, from |-> <<"l", "@", "b">>],
     [host |-> <<>>, to |-> <<"o", "@", "b">>, from |-> <<"l", "@", "b">>]}

InitAlerts ==
    /\ users = {}
    /\ userIndexAccess = NoAccess
    /\ teamIndexAccess = NoTeamAccess
    /\ indexOptions = <<>>
    /\ indexPatternSettings = <<>>
    /\ defaultIndexPattern = <<"a">>
    /\ piiFieldRules = <<>>
    /\ request = None
    /\ piiIn = None
    /\ piiOut = None
    /\ guardCall = None
    /\ configResp = None
    /\ featureToggles = NoToggles
    /\ responseCache = <<>>
    /\ now = StartMs
    /\ inflight = None
    /\ engineCall = None
    /\ response = None
    /\ storedBy = {}
    /\ metrics = [searches |-> 0, exports |-> 0]
    /\ budget = [routes |-> "none", requests |-> 0, updates |-> 0]
    /\ CACHE_TTL_MS = DefaultCacheTtlMs
    /\ fnCall = None
    /\ cacheLog = <<>>
    /\ alertRules \in AlertRuleLists
    /\ lastTriggeredAt = [id \in RuleIds |-> <<>>]
    /\ hourlyQueries = [h \in AlertHours |-> [q \in CountedQueries |-> 0]]
    /\ smtp \in SmtpPool
    /\ alertRuns = <<>>
    /\ evalLog = <<>>
    /\ lastSentAt = [id \in RuleIds |-> 0 - 1]

NextAlerts == TimerFires \/ SendResolves \/ SendRejects \/ RecordHourlyQuery

SpecAlerts == InitAlerts /\ [][NextAlerts]_vars

Evaluations == {evalLog[i] : i \in 1..Len(evalLog)}

WindowMs(e) == e.windowMinutes * 60 * 1000

C19_OnlyOnSend ==
    [][\A id \in RuleIds :
          lastTriggeredAt'[id] # lastTriggeredAt[id] => lastSentAt'[id] # lastSentAt[id]]_vars

\* The position of the rule with an id in rules.rules
RuleAt(id) == CHOOSE j \in 1..Len(alertRules) : alertRules[j].id = id

\* runRuleChecks evaluates a rule when its query is not empty and its threshold is 1 or more
Watched(rule) == Trim(rule.query) # <<>> /\ rule.threshold >= 1

\* C25: when the send of a rule's alert was rejected in a run, every rule
\* after it in the list is evaluated in that run (or the run is suspended at
\* the send of a rule before it), and a rule evaluated after the rejection
\* whose count exceeds its threshold outside its window, with the mail
\* settings complete for it, has its alert dispatched.
C25_RunGoesOn ==
    \A e \in Evaluations :
        e.outcome = "rejected" =>
            \A j \in (RuleAt(e.id) + 1)..Len(alertRules) :
                Watched(alertRules[j]) =>
                    \/ \E k \in 1..Len(alertRuns) : alertRuns[k].at = e.at /\ alertRuns[k].i < j
                    \/ \E e2 \in Evaluations :
                        /\ e2.id = alertRules[j].id
                        /\ e2.at = e.at
                        /\ (/\ e2.count > e2.threshold
                            /\ (e2.prevSent < 0 \/ e2.at >= e2.prevSent + WindowMs(e2))
                            /\ sendAlertEmailSends(Trim(alertRules[j].email)))
                           => e2.dispatched

\* The send of the first rule's alert was rejected, and the run went on: it
\* evaluated the second rule and dispatched its alert.
C25_Witness ==
    /\ Len(alertRules) = 2
    /\ \E e, e2 \in Evaluations :
        /\ e.id = alertRules[1].id
        /\ e.outcome = "rejected"
        /\ e2.id = alertRules[2].id
        /\ e2.at = e.at
        /\ e2.dispatched

(***************************************************************************)
(* SpecOverlap: the timer also fires while a run awaits a send              *)
(***************************************************************************)
NextOverlap ==
    \/ TimerFires
    \/ TimerFiresDuringSend
    \/ SendResolves
    \/ SendRejects
    \/ RecordHourlyQuery

SpecOverlap == InitAlerts /\ [][NextOverlap]_vars

\* C28: two alert e-mails of one rule that were both sent were dispatched by
\* runs at least windowMinutes apart.
C28_NoTwoInWindow ==
    \A e1, e2 \in Evaluations :
        (/\ e1.id = e2.id
         /\ e1.outcome = "sent"
         /\ e2.outcome = "sent"
         /\ e1.at < e2.at)
        => e2.at - e1.at >= WindowMs(e2)

(***************************************************************************)
(* SpecExport: exports interleaved with replacements of the PII rules      *)
(***************************************************************************)
InitExport ==
    /\ users = UserPool
    /\ userIndexAccess = NoAccess
    /\ teamIndexAccess = NoTeamAccess
    /\ indexOptions = <<>>
    /\ indexPatternSettings = << [pattern |-> <<"a">>, timeField |-> <<"t", "s">>] >>
    /\ defaultIndexPattern = <<"a">>
    /\ piiFieldRules \in RulePool
    /\ request = None
    /\ piiIn = None
    /\ piiOut = None
    /\ guardCall = None
    /\ configResp = None
    /\ featureToggles \in {NoToggles, [t1 |-> None, t2 |-> Unmasked]}
    /\ responseCache = <<>>
    /\ now = StartMs
    /\ inflight = None
    /\ engineCall = None
    /\ response = None
    /\ storedBy = {}
    /\ metrics = [searches |-> 0, exports |-> 0]
    /\ budget = [routes |-> "export", requests |-> MaxRequests, updates |-> MaxUpdates]
    /\ ExtIdle

NextExport ==
    \/ ClientSends
    \/ PostExport
    \/ ExportBatchReturns
    \/ ExportFails
    \/ PutPiiFieldRules

SpecExport == InitExport /\ [][NextExport]_vars

\* The position of the first occurrence of an event in a sequence, 0 when absent
EventAt(events, e) == IndexOf(events, e)

\* The export ended on its success path: it recorded the export
Succeeded(resp) == IsDownload(resp) /\ resp.ended /\ EventAt(resp.events, "recordExport") > 0

\* The export ended in the catch block
Failed(resp) == IsDownload(resp) /\ resp.ended /\ EventAt(resp.events, "gzip2.write") > 0

\* C21: an export that got a scroll cursor from the engine and ended
\* successfully has sent the delete of the cursor, whether its first batch
\* had hits or not.
C21_CursorDeleted ==
    (Succeeded(response) /\ response.cursor) => EventAt(response.events, "clear_scroll") > 0

\* C22: an export that ended because a request to the engine failed has the
\* JSON error as the last chunk of its body, has ended the gzip stream that
\* was piped to the response at the start, and has recorded no export.
C22_FailureInBand ==
    Failed(response) =>
        /\ response.body # <<>>
        /\ response.body[Len(response.body)] = ExportFailed
        /\ EventAt(response.events, "gzip.end") > 0
        /\ EventAt(response.events, "recordExport") = 0

\* C23: in every export that ended successfully, the export was recorded
\* before the gzip stream was ended.
C23_RecordedBeforeEnd ==
    Succeeded(response) =>
        EventAt(response.events, "recordExport") < EventAt(response.events, "gzip.end")

\* C24: a CSV export writes one header line, before every row, and the rows
\* of every batch have the columns of that header, in its order.
C24_OneHeader ==
    (IsDownload(response) /\ response.req.format = "csv" /\ response.columns # <<>>) =>
        /\ response.columns[1].line = "header"
        /\ \A i \in 2..Len(response.columns) :
            /\ response.columns[i].line = "rows"
            /\ response.columns[i].cols = response.columns[1].cols

\* C27: every batch of an export that masks is masked with the PII rules
\* that were in force when the export started.
C27_OneRuleList ==
    IsDownload(response) =>
        \A i \in 1..Len(response.masks) : response.masks[i] = response.startRules

(***************************************************************************)
(* SpecLeak: what a caller without piiUnmasked gets for two documents that *)
(* differ only in fields under a mask or hide rule                         *)
(***************************************************************************)
PathBC == <<"b", ".", "c">>

\* A stored document: { a: v, b: { c: w } }
DocOf(v, w) == Obj(<< <<PathA, Str(v)>>, <<PathB, Obj(<< <<<<"c">>, Str(w)>> >>)>> >>)

DocPool == {DocOf(v, w) : v \in {<<"p">>, <<"q">>}, w \in {<<"x">>, <<"y">>}}

LeakRules ==
    {<<[pattern |-> PathA, action |-> "mask"]>>,
     <<[pattern |-> PathA, action |-> "hide"]>>,
     <<[pattern |-> PathBC, action |-> "hide"]>>,
     <<[pattern |-> <<"b", ".", "*">>, action |-> "mask"]>>,
     <<[pattern |-> PathBC, action |-> "mask"], [pattern |-> PathA, action |-> "hide"]>>}

\* The value of a field of a document, by the field's path
DocValue(doc, field) ==
    IF field = PathA THEN Get(doc, PathA) ELSE Get(Get(doc, PathB), <<"c">>)

\* The path of a field is under a mask or a hide rule
Protected(path) == getPiiAction(path, buildPiiMatchers(piiFieldRules)) \in {"mask", "hide"}

\* Two documents that differ, and only in fields under a mask or hide rule
DifferOnlyInProtected(d1, d2) ==
    /\ d1 # d2
    /\ DocValue(d1, PathA) # DocValue(d2, PathA) => Protected(PathA)
    /\ DocValue(d1, PathBC) # DocValue(d2, PathBC) => Protected(PathBC)

\* What the search engine answers about an index that holds one document:
\* to a search the hit, to a terms aggregation one bucket with the field's value
EngineHits(doc) == HitsData(<<HitOf(doc)>>)

EngineAggregations(doc, aggMap) ==
    Obj(<< <<K_aggregations,
             Obj([i \in 1..Len(aggMap) |->
                    <<aggMap[i].aggName, Buckets(<<DocValue(doc, aggMap[i].actualField.v)>>)>>])>> >>)

LeakRoutes ==
    {[route |-> "search"],
     [route |-> "export", format |-> "json"],
     [route |-> "export", format |-> "csv"],
     [route |-> "fields", fields |-> <<PathA>>],
     [route |-> "fields", fields |-> <<PathBC>>]}

\* The body of the response of a route to a caller without piiUnmasked, when
\* the index holds the document
RouteBody(r, doc) ==
    IF r.route = "search"
    THEN SearchMasked([piiUnmasked |-> FALSE], EngineHits(doc))
    ELSE IF r.route = "export"
    THEN LET hits == applyPiiRulesToHits(Get(Get(EngineHits(doc), K_hits), K_hits),
                                         piiFieldRules).v
         IN  Arr([i \in 1..Len((IF r.format = "csv" THEN <<CsvHeaderLine(hits)>> ELSE <<>>)
                               \o writeBatch(hits, r.format)) |->
                    Str(((IF r.format = "csv" THEN <<CsvHeaderLine(hits)>> ELSE <<>>)
                         \o writeBatch(hits, r.format))[i])])
    ELSE LET aggMap == BuildAggs(r.fields, Obj(<<>>), fieldExplorerTopN).aggMap
         IN  FieldResult(aggMap, EngineAggregations(doc, aggMap))

\* A caller without piiUnmasked asks a route about an index that holds one
\* document, and about the same index holding the other document
CallRoutes ==
    /\ \E r \in LeakRoutes, d1, d2 \in DocPool :
        /\ DifferOnlyInProtected(d1, d2)
        /\ fnCall' = [fn |-> "routes", route |-> r, docs |-> <<d1, d2>>,
                      rules |-> piiFieldRules,
                      bodies |-> <<RouteBody(r, d1), RouteBody(r, d2)>>]
    /\ UNCHANGED <<users, userIndexAccess, teamIndexAccess, indexOptions, indexPatternSettings,
                   defaultIndexPattern, piiFieldRules, request, piiIn, piiOut, guardCall,
                   configResp, pipeVars, CACHE_TTL_MS, cacheLog, alertVars>>

InitLeak ==
    /\ users = UserPool
    /\ userIndexAccess = NoAccess
    /\ teamIndexAccess = NoTeamAccess
    /\ indexOptions = <<>>
    /\ indexPatternSettings = <<>>
    /\ defaultIndexPattern = <<"a">>
    /\ piiFieldRules \in LeakRules
    /\ request = None
    /\ piiIn = None
    /\ piiOut = None
    /\ guardCall = None
    /\ configResp = None
    /\ PipeIdle

NextLeak == CallRoutes

SpecLeak == InitLeak /\ [][NextLeak]_vars

RoutesCall == fnCall # None /\ fnCall.fn = "routes"

\* C30: for a caller without piiUnmasked, the search, export and
\* field-explorer routes answer alike about two documents that differ only
\* in fields under a mask or hide rule.
C30_SameResponse ==
    RoutesCall => fnCall.bodies[1] = fnCall.bodies[2]
====
